---- MODULE Spec2Model ----
(***************************************************************************)
(* Model of the analysis store of timbre-space-eq (src/lib/audio-store.ts, *)
(* the current version of the store, lines 1213-2988): the per-frame       *)
(* callback updateData (chord history, chord-transition table,             *)
(* predictability, chord stabilization, key and degree, analysis history)  *)
(* and the track-load handlers of loadAudioFile.                           *)
(*                                                                         *)
(* Times are integers in milliseconds: Date.now() for the chord history,   *)
(* and the playback position (seconds in the source) scaled by 1000.       *)
(* predictability, a float quotient in the source, is kept as the reduced  *)
(* fraction num/den, so two quotients are equal exactly when the floats    *)
(* are.                                                                    *)
(***************************************************************************)
EXTENDS Integers, Sequences, FiniteSets, TLC

VARIABLES
    now,               \* value of Date.now() read by the latest frame
    chordHistory,      \* module-level array of {chord, note, timestamp}
    currentChord,      \* store: stabilized chord label
    currentNote,       \* store: root note of the stabilized chord
    songKey,           \* store: detected key
    chordDegree,       \* store: roman numeral of currentChord in songKey
    chordTransitions,  \* store: Map<from, Map<to, count>>
    predictability,    \* store: [num, den], the reduced quotient
    isPlaying,         \* store
    currentTime,       \* store: playback position (ms)
    analysisHistory,   \* store: array of recorded samples
    currentFileName,   \* store
    rhythmMetrics,     \* store: [tempo, beatStrength, syncopation]
    dynamicParticles,  \* store: array of peak events
    elementTime,       \* audioElement.currentTime (ms)
    played,            \* playback time (ms) elapsed since the last recorded
                       \* sample, counted up to the 500 ms of the gate
    observed,          \* inputs of the latest frame
    frames,            \* number of frames analysed since the initial state
    consumer,          \* what a component that read the store holds
    call,              \* a call of a pure function: [fn, args, result]
    lastOp,            \* the handler that ran last
    prev,              \* the store fields as they were before that handler
    transcription      \* transcribeLyrics: its position, timers and store fields

vars == <<now, chordHistory, currentChord, currentNote, songKey, chordDegree,
          chordTransitions, predictability, isPlaying, currentTime,
          analysisHistory, currentFileName, rhythmMetrics, dynamicParticles,
          elementTime, played, observed, frames, consumer, call, lastOp, prev,
          transcription>>

-----------------------------------------------------------------------------
(* Bounds of the model *)

\* frames per behaviour of Spec
MaxFrames == 6

\* frames per behaviour of SpecKey
MaxKeyFrames == 11

\* frames per behaviour of SpecQuorum
MaxQuorumFrames == 10

\* frames per behaviour of SpecPeaks
MaxPeakFrames == 4

\* frames per behaviour of SpecPlay
MaxPlayFrames == 4

\* length of the track played in SpecPlay (ms)
Duration == 1000

\* number of frames of SpecExport
MaxExportFrames == 6

\* number of transcribeLyrics calls of SpecTranscribe
MaxTranscriptions == 2

\* length of the second, shorter track of SpecExport (ms)
ShortDuration == 250

\* frames per behaviour of SpecCap
MaxCapFrames == 8

\* frames per behaviour of SpecSnap
MaxSnapFrames == 3

\* longest frequency buffer of SpecFeatures
MaxBins == 4

\* longest waveform buffer of SpecFeatures
MaxSamples == 4

\* highest frequency (Hz) of the quarter-Hz grid of SpecPitch
MaxPitchHz == 40

\* highest frequency bin of SpecPitch
MaxPitchBin == 64

\* most bins of ChordBins with a peak in a frame of SpecChord
MaxChordNotes == 4

\* frames per behaviour of SpecTempo
MaxTempoFrames == 3

\* timeupdate events per behaviour of SpecCap
MaxCapTicks == 12

-----------------------------------------------------------------------------
(* Program constants *)

CHORD_CHANGE_THRESHOLD == 800

CHORD_HISTORY_MS == 2000

MIN_KEY_HISTORY == 10

HISTORY_INTERVAL_MS == 500

HISTORY_CAP == 1000

\* minDistance of the peak match (Hz)
PEAK_MIN_DISTANCE == 300

\* silence after which a peak event is marked inactive (ms)
INACTIVE_MS == 300

\* silence after which a peak event is dropped (ms)
EXPIRY_MS == 20000

\* half width of the freqRange of a new peak event (Hz)
FREQ_HALF_WIDTH == 100

FREQ_MIN == 20

FREQ_MAX == 20000

\* analyser.fftSize: a frequency bin i is at i * sampleRate / FFT_SIZE Hz.
\* Frequencies handed to frequencyToNote are counted in units of
\* 1 / FFT_SIZE Hz, so that bin i at sample rate r is the integer i * r.
FFT_SIZE == 2048

\* frequencyToNote: frequencies below 20 Hz are not mapped
NOTE_MIN_HZ == 20

\* 12 * log2(frequency / 440) + 49 rounds to 108 + j or more exactly when
\* frequency >= 440 * 2^((108 + j - 49.5) / 12) Hz; entry j + 1 is that
\* (irrational) frequency in units of 1 / FFT_SIZE Hz, rounded up, for
\* j = 0..11
TopOctave == <<26442582, 28014940, 29680795, 31445707, 33315566, 35296613,
               37395458, 39619108, 41974983, 44470945, 47115325, 49916948>>

Undetected == "---"

NoFile == "null"

NOTE_NAMES == <<"C", "C#", "D", "D#", "E", "F", "F#", "G", "G#", "A", "A#", "B">>

\* "b" stands for the flat sign of the source
romanNumerals == <<"I", "bII", "II", "bIII", "III", "IV", "bV", "V", "bVI", "VI", "bVII", "VII">>

romanNumeralsLower == <<"i", "bii", "ii", "biii", "iii", "iv", "bv", "v", "bvi", "vi", "bvii", "vii">>

\* the suffixes detectChord appends to the root note
ChordSuffixes == {"", "5", "m", "sus", "m7", "7", "add9"}

\* suffixes that contain an "m" (none contains "maj")
MinorSuffixes == {"m", "m7"}

NoteSet == {NOTE_NAMES[i] : i \in DOMAIN NOTE_NAMES}

-----------------------------------------------------------------------------
(* Inputs of the model *)

\* interval between two frames of Spec (ms): six frames per quorum window
FrameStep == 150

\* interval between two frames of SpecKey (ms): four frames per quorum
\* window, ten per chord-history window
KeyFrameStep == 200

\* interval between two frames of SpecQuorum (ms): eight frames per quorum
\* window
QuorumFrameStep == 100

\* results of detectChord fed to the frames of Spec
DetectResults ==
    { [chord |-> Undetected, rootNote |-> Undetected],
      [chord |-> "C" \o "", rootNote |-> "C"],
      [chord |-> "A" \o "m", rootNote |-> "A"],
      [chord |-> "G" \o "", rootNote |-> "G"] }

\* results of detectChord fed to the frames of SpecQuorum
QuorumDetectResults ==
    { [chord |-> Undetected, rootNote |-> Undetected],
      [chord |-> "C" \o "", rootNote |-> "C"],
      [chord |-> "A" \o "m", rootNote |-> "A"] }

\* results of detectChord fed to the frames of SpecKey
PairDetectResults ==
    { [chord |-> "C" \o "", rootNote |-> "C"],
      [chord |-> "A" \o "m", rootNote |-> "A"] }

Files == {"a.mp3"}

\* the labels detectChord builds, and the keys detectKey returns: the
\* arguments of getChordDegree in SpecDegree
ChordLabels == {n \o s : n \in NoteSet, s \in ChordSuffixes} \cup {Undetected}

KeyNames == NoteSet \cup {Undetected}

\* the keys of the stems object
StemTypes == {"vocals", "drums", "bass", "other"}

\* magnitudes of a bin in the analysers of the stems and of the main signal
StemLevels == {0, 100, 128, 200, 255}

\* analyser.frequencyBinCount: the length of frequencyData
frequencyBinCount == FFT_SIZE \div 2

\* magnitudes of the buffers of SpecPick: none, at the threshold, above it
PickLevels == {0, 100, 150, 200}

\* the buffers handed to detectChord in SpecPick, as the magnitudes of the
\* bins that are not 0: six bins of different notes and the neighbour of
\* the first (which alone is tried at the threshold), or the bins at the
\* two ends of the scanned range
PickBuffers ==
    {b \in [{40, 41, 43, 45, 48, 51, 53} -> PickLevels] :
        \A i \in DOMAIN b : b[i] = 100 => i = 40}
    \cup [{4, 5, 255, 256} -> {0, 150, 200}]

\* the detection of a frame without a chord
SilentDetect == [chord |-> Undetected, rootNote |-> Undetected]

\* bins of a frame with low-frequency energy: tempo 90, beatStrength 2/5,
\* syncopation 1/5
LoudSpectrum == [lowSum |-> 600, variation |-> 1000, peaks |-> <<>>]

\* peak frequencies (Hz) fed to the frames of SpecPeaks: 7200 is within 300
\* Hz of both 7000 and 7400, which are 400 Hz apart. They lie in the upper
\* half of the bins scanned for peak events (bins 10..511), which detectChord
\* (bins 5..255) does not read, so the detection of these frames is "---"
PeakLists == {<<>>, <<7000>>, <<7200>>, <<7400>>, <<7000, 7400>>}

\* audioContext.sampleRate of an output device running at 96 kHz
HiResSampleRate == 96000

\* the frequency of bin 440 at that rate: 20625 Hz
HiResPeak == (440 * HiResSampleRate) \div FFT_SIZE

\* peak frequencies (Hz) fed to the frames of SpecHiRes
HiResPeakLists == {<<>>, <<7000>>, <<7200>>, <<HiResPeak>>, <<7000, HiResPeak>>}

\* interval between two frames of SpecExport (ms)
ExportFrameStep == 250

\* the tracks loaded in SpecExport
ExportFiles == {"a.mp3", "b.mp3"}

\* audioElement.duration of a loaded track (ms)
DurationOf(file) == IF file = "b.mp3" THEN ShortDuration ELSE Duration

\* interval between two frames of SpecPlay (ms)
PlayFrameStep == 100

\* playback time between two timeupdate events (ms)
TickStep == 250

\* positions (ms) passed to seekTo; the last one is beyond the track
SeekPositions == {0, 750, 2000}

\* interval between two frames of SpecSnap (ms)
SnapFrameStep == 200

\* peak frequencies (Hz) fed to the frames of SpecSnap
SnapPeakLists == {<<>>, <<7000>>}

\* magnitudes of the frequency buffers of SpecFeatures
FeatureMagnitudes == {0, 200}

\* samples of the waveform buffers of SpecFeatures: below, at and above the
\* centre value 128
FeatureSamples == {100, 128, 200}

\* audioContext.sampleRate (Hz)
SampleRates == {44100, 48000}

\* the note A in five octaves (Hz)
ConcertPitches == {55, 110, 220, 440, 880}

\* frequencies handed to frequencyToNote in SpecPitch, in units of
\* 1 / FFT_SIZE Hz: every quarter of a Hz from 0 to MaxPitchHz, and the
\* frequencies of the bins 0..MaxPitchBin, and the octaves of A
PitchFrequencies ==
    {q * (FFT_SIZE \div 4) : q \in 0..(4 * MaxPitchHz)}
    \cup {i * r : i \in 0..MaxPitchBin, r \in SampleRates}
    \cup {h * FFT_SIZE : h \in ConcertPitches}

\* the sample rate of the frames of SpecChord (Hz)
ChordSampleRate == 44100

\* bins with a peak in the frames of SpecChord: at 44100 Hz frequencyToNote
\* gives twelve different names for them
ChordBins == {40, 43, 45, 48, 51, 53, 57, 60, 64, 67, 71, 75}

\* the frames of SpecChord: peaks at the bins of notes, the one at strongest
\* with magnitude 250 and the others, in bin order, with 200, 190, 180;
\* overtones 0: no other peak; 1: each peak has a weaker one (by 5) an octave
\* above; 2: the strongest peak has one and two octaves above it peaks of
\* 249 and 248, and the next peak has one of 199 an octave above
ChordFrames ==
    {[notes |-> S, strongest |-> b, overtones |-> o] :
        S \in {T \in SUBSET ChordBins :
                  Cardinality(T) >= 1 /\ Cardinality(T) <= MaxChordNotes},
        b \in ChordBins, o \in 0..2}

\* the magnitude of the peak of frame at bin b of frame.notes
FundamentalMagnitude(frame, b) ==
    IF b = frame.strongest THEN 250
    ELSE 210 - 10 * Cardinality({c \in frame.notes \ {frame.strongest} : c <= b})

\* the magnitude of frame at bin i, 0 where it has no peak
FrameMagnitude(frame, i) ==
    LET second == {c \in frame.notes :
                      FundamentalMagnitude(frame, c) = 200}
    IN IF i \in frame.notes THEN FundamentalMagnitude(frame, i)
       ELSE IF frame.overtones = 1 /\ i % 2 = 0 /\ (i \div 2) \in frame.notes
            THEN FundamentalMagnitude(frame, i \div 2) - 5
       ELSE IF frame.overtones = 2 /\ i = 2 * frame.strongest THEN 249
       ELSE IF frame.overtones = 2 /\ i = 4 * frame.strongest THEN 248
       ELSE IF frame.overtones = 2 /\ i % 2 = 0 /\ (i \div 2) \in second THEN 199
       ELSE 0

\* the peaks detectChord finds in frame, in bin order: the bins 5..255 of
\* the 1024 whose magnitude is above 100 (they are local maxima)
FramePeaksOf(frame) ==
    LET bins == SelectSeq([k \in 1..251 |-> k + 4],
                          LAMBDA i : FrameMagnitude(frame, i) > 100)
    IN [k \in DOMAIN bins |->
           [freq |-> bins[k] * ChordSampleRate,
            magnitude |-> FrameMagnitude(frame, bins[k])]]

\* root notes of the chord histories of SpecDetectKey
KeyRoots == {Undetected, "C", "G"}

\* lengths of the chord histories of SpecDetectKey
KeyHistoryLengths ==
    {0, MIN_KEY_HISTORY - 1, MIN_KEY_HISTORY, MIN_KEY_HISTORY + 1}

\* the chord histories handed to detectKey in SpecDetectKey
KeyHistories ==
    UNION {[1..n -> {[chord |-> r, note |-> r] : r \in KeyRoots}] :
              n \in KeyHistoryLengths}

\* magnitudes of the buffers of SpecRhythm
RhythmLevels == {0, 1, 3, 120, 255}

\* magnitudes of the buffers of SpecTempo
TempoLevels == {0, 1, 255}

\* the buffer of n bins with magnitude a in the first k bins and b after
StepBuffer(n, k, a, b) == [i \in 1..n |-> IF i <= k THEN a ELSE b]

\* the buffer of n bins with magnitudes a, b, a, b, ...
CombBuffer(n, a, b) == [i \in 1..n |-> IF i % 2 = 1 THEN a ELSE b]

\* the first 50 bins of the frames of SpecTempo: one level, or a step after
\* bin 4 or bin 9 (no bin is a local maximum)
TempoBuffers ==
    {StepBuffer(50, k, a, b) : k \in {5, 10}, a \in TempoLevels, b \in TempoLevels}

\* interval between two frames of SpecTempo (ms)
TempoFrameStep == 200

\* lengths of the buffers of SpecRhythm
RhythmLengths == {0, 1, 9, 10, 11, 49, 50, 51, 64}

\* the frequency buffers of SpecRhythm
RhythmBuffers ==
    {StepBuffer(n, 10, a, b) : n \in RhythmLengths, a \in RhythmLevels, b \in RhythmLevels}
    \cup {CombBuffer(n, a, b) : n \in RhythmLengths, a \in RhythmLevels, b \in RhythmLevels}

\* interval between two frames of SpecCap (ms): beyond the chord-history
\* window
CapFrameStep == 2500

\* intervals between two frames of SpecPeaks (ms): event ages of 200, 400,
\* 19800, 20000 and 20200 ms occur
PeakFrameSteps == {200, 19800}

-----------------------------------------------------------------------------
(* Helpers: JavaScript Map and Array operations *)

EmptyMap == [k \in {} |-> 0]

RECURSIVE SumSet(_, _)
SumSet(S, f) ==
    IF S = {} THEN 0
    ELSE LET x == CHOOSE y \in S : TRUE IN f[x] + SumSet(S \ {x}, f)

RECURSIVE MaxSet(_, _)
MaxSet(S, f) ==
    IF S = {} THEN 0
    ELSE LET x == CHOOSE y \in S : TRUE
             m == MaxSet(S \ {x}, f)
         IN IF f[x] > m THEN f[x] ELSE m

RECURSIVE GCD(_, _)
GCD(a, b) == IF b = 0 THEN a ELSE GCD(b, a % b)

\* the float n/d, as a reduced fraction
Quotient(n, d) == [num |-> n \div GCD(n, d), den |-> d \div GCD(n, d)]

Zero == [num |-> 0, den |-> 1]

\* keys of a Map filled by iterating s, in insertion order
RECURSIVE KeysInOrder(_, _)
KeysInOrder(s, acc) ==
    IF s = <<>> THEN acc
    ELSE KeysInOrder(Tail(s),
                     IF \E i \in DOMAIN acc : acc[i] = Head(s)
                     THEN acc ELSE Append(acc, Head(s)))

ChordsOf(h) == [i \in DOMAIN h |-> h[i].chord]

NotesOf(h) == [i \in DOMAIN h |-> h[i].note]

Occurrences(s, x) == Cardinality({i \in DOMAIN s : s[i] = x})

Max2(a, b) == IF a > b THEN a ELSE b

Min2(a, b) == IF a < b THEN a ELSE b

Abs(x) == IF x < 0 THEN 0 - x ELSE x

\* the result of 0 / 0
NaN == [num |-> 0, den |-> 0]

\* the result of n / 0 for n > 0
Infinity == [num |-> 1, den |-> 0]

\* JavaScript division n / d of non-negative integers
Divide(n, d) ==
    IF d # 0 THEN Quotient(n, d) ELSE IF n = 0 THEN NaN ELSE Infinity

\* the arrays of at most n elements of S
ArraysUpTo(S, n) == UNION {[1..k -> S] : k \in 0..n}

\* no pure function has been called
NoCall == [fn |-> "none", args |-> <<>>, result |-> <<>>]

\* no transcribeLyrics call has been made: isTranscribingLyrics false and
\* transcriptionProgress 0 in the store, no timer armed. pc is the await
\* the running call is at, progressIntervals the number of setInterval
\* timers not cleared, resetTimeouts the number of pending 2 s timeouts;
\* calls, outcome and rejected record what has happened
NoTranscription ==
    [pc |-> "idle",
     isTranscribingLyrics |-> FALSE,
     transcriptionProgress |-> 0,
     progressIntervals |-> 0,
     apiTimeout |-> FALSE,
     resetTimeouts |-> 0,
     calls |-> 0,
     outcome |-> "none",
     rejected |-> FALSE]

\* the analysis inputs of a frame besides the detected chord: the sum of
\* the first ten frequency bins, the summed variation of bins 1..49 and the
\* frequencies (Hz, ascending) of the bins that pass the peak test
QuietSpectrum == [lowSum |-> 0, variation |-> 0, peaks |-> <<>>]

-----------------------------------------------------------------------------
(* Pure functions of the store *)

indexOf(seq, x) ==
    IF \E i \in DOMAIN seq : seq[i] = x
    THEN (CHOOSE i \in DOMAIN seq : seq[i] = x) - 1
    ELSE -1

\* chord.match(/^[A-G]#?/)?.[0] || "" on the labels detectChord builds
ChordRootMatch(chord) ==
    LET sharp == {n \in NoteSet : \E s \in ChordSuffixes : n \o "#" \o s = chord}
        plain == {n \in NoteSet : \E s \in ChordSuffixes : n \o s = chord}
    IN IF sharp # {} THEN (CHOOSE n \in sharp : TRUE) \o "#"
       ELSE IF plain # {} THEN CHOOSE n \in plain : TRUE
       ELSE ""

\* chord.includes("m") && !chord.includes("maj")
IsMinorLabel(chord) ==
    \E n \in NoteSet : \E s \in MinorSuffixes : n \o s = chord

\* mutant: a minor chord on the tonic is lower-case too
getChordDegreeLowerTonic(chord, key) ==
    IF chord = Undetected \/ key = Undetected THEN Undetected
    ELSE LET rootNote == ChordRootMatch(chord)
             keyIndex == indexOf(NOTE_NAMES, key)
             chordIndex == indexOf(NOTE_NAMES, rootNote)
             degree == (chordIndex - keyIndex + 12) % 12
         IN IF rootNote = "" THEN Undetected
            ELSE IF keyIndex = -1 \/ chordIndex = -1 THEN Undetected
            ELSE IF IsMinorLabel(chord)
                 THEN romanNumeralsLower[degree + 1]
                 ELSE romanNumerals[degree + 1]

\* getChordDegree(chord, key)
getChordDegree(chord, key) ==
    IF chord = Undetected \/ key = Undetected THEN Undetected
    ELSE LET rootNote == ChordRootMatch(chord)
             keyIndex == indexOf(NOTE_NAMES, key)
             chordIndex == indexOf(NOTE_NAMES, rootNote)
             degree == (chordIndex - keyIndex + 12) % 12
         IN IF rootNote = "" THEN Undetected
            ELSE IF keyIndex = -1 \/ chordIndex = -1 THEN Undetected
            ELSE IF IsMinorLabel(chord) /\ degree # 0
                 THEN romanNumeralsLower[degree + 1]
                 ELSE romanNumerals[degree + 1]

\* mutant: on equal counts the root seen later wins
RECURSIVE KeyLoopLastOnTie(_, _, _, _, _)
KeyLoopLastOnTie(keys, notes, i, maxCount, tonic) ==
    IF i > Len(keys) THEN tonic
    ELSE LET count == Occurrences(notes, keys[i])
         IN IF count >= maxCount
            THEN KeyLoopLastOnTie(keys, notes, i + 1, count, keys[i])
            ELSE KeyLoopLastOnTie(keys, notes, i + 1, maxCount, tonic)

\* the loop of detectKey over noteCounts.entries()
RECURSIVE KeyLoop(_, _, _, _, _)
KeyLoop(keys, notes, i, maxCount, tonic) ==
    IF i > Len(keys) THEN tonic
    ELSE LET count == Occurrences(notes, keys[i])
         IN IF count > maxCount
            THEN KeyLoop(keys, notes, i + 1, count, keys[i])
            ELSE KeyLoop(keys, notes, i + 1, maxCount, tonic)

\* mutant: no minimum number of history entries
detectKeyNoMinimum(history) ==
    LET notes == SelectSeq(NotesOf(history), LAMBDA n : n # Undetected)
    IN KeyLoop(KeysInOrder(notes, <<>>), notes, 1, 0, Undetected)

detectKey(history) ==
    IF Len(history) < MIN_KEY_HISTORY THEN Undetected
    ELSE LET notes == SelectSeq(NotesOf(history), LAMBDA n : n # Undetected)
         IN KeyLoop(KeysInOrder(notes, <<>>), notes, 1, 0, Undetected)

\* recentChords.find((h) => h.chord === chordName)?.note || "---"
FindNote(recent, chordName) ==
    IF \E i \in DOMAIN recent : recent[i].chord = chordName
    THEN LET i == CHOOSE j \in DOMAIN recent :
                    /\ recent[j].chord = chordName
                    /\ \A k \in 1..(j - 1) : recent[k].chord # chordName
         IN IF recent[i].note = "" THEN Undetected ELSE recent[i].note
    ELSE Undetected

\* mutant: a quorum of 2 observations
QuorumTestAtLeast2(count, maxCount) == count > maxCount /\ count > 1

\* mutant: the last label over the quorum wins, whatever the maximum
QuorumTestNoMax(count, maxCount) == count > 2

\* whether a label count replaces the running maximum of the quorum loop
QuorumTest(count, maxCount) == count > maxCount /\ count > 2

\* the loop over chordCounts.entries() choosing stableChord / stableNote
RECURSIVE StableLoop(_, _, _, _)
StableLoop(keys, recent, i, acc) ==
    IF i > Len(keys) THEN acc
    ELSE LET count == Occurrences(ChordsOf(recent), keys[i])
         IN StableLoop(keys, recent, i + 1,
                IF QuorumTest(count, acc.maxCount)
                THEN [stableChord |-> keys[i],
                      stableNote |-> FindNote(recent, keys[i]),
                      maxCount |-> count]
                ELSE acc)

StableChord(recent) ==
    StableLoop(KeysInOrder(ChordsOf(recent), <<>>), recent, 1,
               [stableChord |-> Undetected, stableNote |-> Undetected, maxCount |-> 0])

\* mutant: the stable state is committed on every frame
ShouldCommitAlways(stableChord, currentChordState) == TRUE

\* if (stableChord !== "---" || currentChordState === "---")
ShouldCommit(stableChord, currentChordState) ==
    stableChord # Undetected \/ currentChordState = Undetected

\* mutant: self-transitions are recorded
IsTransitionWithSelf(prevChord, currChord) ==
    prevChord # Undetected /\ currChord # Undetected

\* "Only track meaningful chord changes"
IsTransition(prevChord, currChord) ==
    prevChord # Undetected /\ currChord # Undetected /\ prevChord # currChord

\* mutant: the inner table of prevChord is replaced by one holding currChord
\* alone
RecordTransitionFresh(transitions, prevChord, currChord) ==
    LET fromChord == IF prevChord \in DOMAIN transitions
                     THEN transitions[prevChord] ELSE EmptyMap
        old == IF currChord \in DOMAIN fromChord THEN fromChord[currChord] ELSE 0
    IN [k \in DOMAIN transitions \cup {prevChord} |->
            IF k = prevChord THEN [c \in {currChord} |-> old + 1]
            ELSE transitions[k]]

\* transitions.get(prevChord).set(currChord, (get(currChord) || 0) + 1)
RecordTransition(transitions, prevChord, currChord) ==
    LET fromChord == IF prevChord \in DOMAIN transitions
                     THEN transitions[prevChord] ELSE EmptyMap
        old == IF currChord \in DOMAIN fromChord THEN fromChord[currChord] ELSE 0
        updated == [c \in DOMAIN fromChord \cup {currChord} |->
                        IF c = currChord THEN old + 1 ELSE fromChord[c]]
    IN [k \in DOMAIN transitions \cup {prevChord} |->
            IF k = prevChord THEN updated ELSE transitions[k]]

\* mutant: the largest count of the whole table over the total
PredictabilityGlobalMax(transitions) ==
    LET fromTotal == [k \in DOMAIN transitions |->
                         SumSet(DOMAIN transitions[k], transitions[k])]
        fromMax == [k \in DOMAIN transitions |->
                         MaxSet(DOMAIN transitions[k], transitions[k])]
        totalTransitions == SumSet(DOMAIN transitions, fromTotal)
    IN IF totalTransitions > 0
       THEN Quotient(MaxSet(DOMAIN transitions, fromMax), totalTransitions)
       ELSE Zero

\* maxTransitionCount / totalTransitions over the whole table
Predictability(transitions) ==
    LET fromTotal == [k \in DOMAIN transitions |->
                         SumSet(DOMAIN transitions[k], transitions[k])]
        fromMax == [k \in DOMAIN transitions |->
                         MaxSet(DOMAIN transitions[k], transitions[k])]
        totalTransitions == SumSet(DOMAIN transitions, fromTotal)
        maxTransitionCount == SumSet(DOMAIN transitions, fromMax)
    IN IF totalTransitions > 0
       THEN Quotient(maxTransitionCount, totalTransitions)
       ELSE Zero

\* calculateSpectralCentroid; frequencyData[i] of the source is
\* frequencyData[i + 1] here
calculateSpectralCentroid(frequencyData, sampleRate) ==
    LET weightedSum == SumSet(DOMAIN frequencyData,
                              [i \in DOMAIN frequencyData |->
                                  (i - 1) * frequencyData[i]])
        sum == SumSet(DOMAIN frequencyData, frequencyData)
    IN IF sum > 0
       THEN Quotient(weightedSum * sampleRate, sum * 2 * Len(frequencyData))
       ELSE Zero

\* the loop of calculateSpectralRolloff from index i, cumulativeEnergy
\* being the sum of the bins before it; cumulativeEnergy >= totalEnergy *
\* 0.85 is compared as 100 * cumulativeEnergy >= 85 * totalEnergy
RECURSIVE RolloffLoop(_, _, _, _, _)
RolloffLoop(frequencyData, sampleRate, totalEnergy, i, cumulative) ==
    IF i > Len(frequencyData) THEN Quotient(sampleRate, 2)
    ELSE LET cumulativeEnergy == cumulative + frequencyData[i]
         IN IF 100 * cumulativeEnergy >= 85 * totalEnergy
            THEN Quotient((i - 1) * sampleRate, 2 * Len(frequencyData))
            ELSE RolloffLoop(frequencyData, sampleRate, totalEnergy, i + 1,
                             cumulativeEnergy)

calculateSpectralRolloff(frequencyData, sampleRate) ==
    RolloffLoop(frequencyData, sampleRate,
                SumSet(DOMAIN frequencyData, frequencyData), 1, 0)

calculateRoughness(frequencyData) ==
    LET steps == DOMAIN frequencyData \ {1}
        roughness == SumSet(steps,
                            [i \in steps |->
                                Abs(frequencyData[i] - frequencyData[i - 1])])
    IN Divide(roughness, Len(frequencyData))

\* the sign test of calculateZeroCrossingRate between samples i - 1 and i
IsCrossing(timeData, i) ==
    LET before == timeData[i - 1] - 128
        curr == timeData[i] - 128
    IN (before >= 0 /\ curr < 0) \/ (before < 0 /\ curr >= 0)

calculateZeroCrossingRate(timeData) ==
    IF Len(timeData) < 2 THEN Zero
    ELSE LET zeroCrossings ==
                 Cardinality({i \in DOMAIN timeData \ {1} : IsCrossing(timeData, i)})
         IN Quotient(zeroCrossings, Len(timeData))

\* Math.round(12 * Math.log2(frequency / 440) + 49) for frequency f > 0 in
\* units of 1 / FFT_SIZE Hz, f below 2 * TopOctave[1] (25822 Hz): doubling
\* the frequency adds 12 to the note number
RECURSIVE RoundedNoteNum(_)
RoundedNoteNum(f) ==
    IF f >= TopOctave[1]
    THEN 107 + Cardinality({j \in DOMAIN TopOctave : f >= TopOctave[j]})
    ELSE RoundedNoteNum(2 * f) - 12

\* the JavaScript remainder a % b for b > 0: the sign is that of a
Remainder(a, b) == IF a >= 0 THEN a % b ELSE 0 - ((0 - a) % b)

\* NOTE_NAMES[note] for an index of any sign
NoteAt(note) ==
    IF note >= 0 /\ note < Len(NOTE_NAMES) THEN NOTE_NAMES[note + 1]
    ELSE "undefined"

\* frequencyToNote, f in units of 1 / FFT_SIZE Hz
frequencyToNote(f) ==
    IF f < NOTE_MIN_HZ * FFT_SIZE THEN Undetected
    ELSE NoteAt(Remainder(RoundedNoteNum(f), 12))

\* peaks.sort((a, b) => b.magnitude - a.magnitude), one step: the sort is
\* stable, so p, which came after the peaks of sorted, goes behind those at
\* least as strong
InsertPeak(sorted, p) ==
    LET k == Cardinality({i \in DOMAIN sorted :
                             sorted[i].magnitude >= p.magnitude})
    IN SubSeq(sorted, 1, k) \o <<p>> \o SubSeq(sorted, k + 1, Len(sorted))

RECURSIVE SortPeaks(_, _)
SortPeaks(peaks, sorted) ==
    IF peaks = <<>> THEN sorted
    ELSE SortPeaks(Tail(peaks), InsertPeak(sorted, Head(peaks)))

\* mutant: every peak is used
TopPeaksAll(sorted) == sorted

\* peaks.slice(0, 5)
TopPeaks(sorted) == SubSeq(sorted, 1, Min2(5, Len(sorted)))

\* uniqueNotes.some((n) => (noteIdx - rootIdx + 12) % 12 is in intervals)
HasInterval(uniqueNotes, rootNote, intervals) ==
    \E i \in DOMAIN uniqueNotes :
        ((indexOf(NOTE_NAMES, uniqueNotes[i]) - indexOf(NOTE_NAMES, rootNote)
          + 12) % 12) \in intervals

\* stemFrequencyData[i] += stemData[i] for each enabled stem in turn:
\* stemFrequencyData is a Uint8Array, the sum is stored modulo 256
RECURSIVE MergeStems(_, _)
MergeStems(stemData, stemFrequencyData) ==
    IF stemData = <<>> THEN stemFrequencyData
    ELSE MergeStems(Tail(stemData), (stemFrequencyData + Head(stemData)) % 256)

\* the exact value of avgStemValue * 0.7 + frequencyData[i] * 0.3
BlendOf(stemData, main) ==
    Divide(7 * MergeStems(stemData, 0) + 3 * main * Len(stemData),
           10 * Len(stemData))

\* the blend lies halfway between two integers: Math.round then depends on
\* the rounding errors of the two products
IsHalfway(stemData, main) ==
    stemData # <<>> /\ BlendOf(stemData, main).den = 2

\* bin i of frequencyData after the stem merge of updateData, stemData
\* being the values of the enabled stems at bin i and main the value of
\* the analyser of the main signal
BlendBin(stemData, main) ==
    IF stemData = <<>> THEN main
    ELSE LET blend == BlendOf(stemData, main)
         IN (2 * blend.num + blend.den) \div (2 * blend.den)

\* Number(h.time.toFixed(2)): a time in ms rounded to hundredths of a second
toFixed2(time) == ((time + 5) \div 10) * 10

\* analysisHistory.forEach of exportTimbreData, from sample idx on
RECURSIVE ProgressionLoop(_, _, _, _, _)
ProgressionLoop(history, idx, chordProgression, lastChord, lastTime) ==
    IF idx > Len(history) THEN [chordProgression |-> chordProgression,
                                lastTime |-> lastTime]
    ELSE LET h == history[idx]
             n == Len(chordProgression)
             closed == IF n > 0
                       THEN [chordProgression EXCEPT
                               ![n].duration = h.time - lastTime]
                       ELSE chordProgression
         IN IF h.chord # lastChord /\ h.chord # Undetected
            THEN ProgressionLoop(history, idx + 1,
                                 Append(closed,
                                        [time |-> toFixed2(h.time),
                                         chord |-> h.chord,
                                         degree |-> h.chordDegree,
                                         duration |-> 0]),
                                 h.chord, h.time)
            ELSE ProgressionLoop(history, idx + 1, chordProgression,
                                 lastChord, lastTime)

\* the chordProgression of the exported document
ChordProgression(history, totalDuration) ==
    LET loop == ProgressionLoop(history, 1, <<>>, "", 0)
        n == Len(loop.chordProgression)
    IN IF n > 0
       THEN [loop.chordProgression EXCEPT
               ![n].duration = totalDuration - loop.lastTime]
       ELSE loop.chordProgression

\* frequencyData[i] of a buffer given by its bins that are not 0
ByteAt(frequencyData, i) ==
    IF i \in DOMAIN frequencyData THEN frequencyData[i] ELSE 0

\* mutant: a magnitude of exactly 100 is a peak
FindPeaksAtThreshold(frequencyData, sampleRate) ==
    LET bins == SelectSeq(
                  [k \in 1..(frequencyBinCount \div 4 - 5) |-> k + 4],
                  LAMBDA i :
                      /\ ByteAt(frequencyData, i) >= 100
                      /\ ByteAt(frequencyData, i) > ByteAt(frequencyData, i - 1)
                      /\ ByteAt(frequencyData, i) > ByteAt(frequencyData, i + 1))
    IN [k \in DOMAIN bins |->
           [freq |-> bins[k] * sampleRate * (FFT_SIZE \div (2 * frequencyBinCount)),
            magnitude |-> ByteAt(frequencyData, bins[k])]]

\* the peak search of detectChord: for (i = 5; i < length / 4; i++) the
\* bins above 100 that are above both neighbours, with
\* freq = i * sampleRate / (2 * length) in units of 1 / FFT_SIZE Hz
FindPeaks(frequencyData, sampleRate) ==
    LET bins == SelectSeq(
                  [k \in 1..(frequencyBinCount \div 4 - 5) |-> k + 4],
                  LAMBDA i :
                      /\ ByteAt(frequencyData, i) > 100
                      /\ ByteAt(frequencyData, i) > ByteAt(frequencyData, i - 1)
                      /\ ByteAt(frequencyData, i) > ByteAt(frequencyData, i + 1))
    IN [k \in DOMAIN bins |->
           [freq |-> bins[k] * sampleRate * (FFT_SIZE \div (2 * frequencyBinCount)),
            magnitude |-> ByteAt(frequencyData, bins[k])]]

\* detectChord once the peaks are found: peaks is the array of
\* {freq, magnitude} in bin order, freq in units of 1 / FFT_SIZE Hz
ClassifyPeaks(peaks) ==
    IF peaks = <<>> THEN [chord |-> Undetected, rootNote |-> Undetected]
    ELSE
      LET topPeaks == TopPeaks(SortPeaks(peaks, <<>>))
          notes == [i \in DOMAIN topPeaks |-> frequencyToNote(topPeaks[i].freq)]
          uniqueNotes == KeysInOrder(notes, <<>>)
          rootNote == uniqueNotes[1]
          hasMinorThird == HasInterval(uniqueNotes, rootNote, {3})
          hasMajorThird == HasInterval(uniqueNotes, rootNote, {4})
          hasSeventh == HasInterval(uniqueNotes, rootNote, {10, 11})
          label ==
            IF Len(uniqueNotes) = 1 THEN rootNote
            ELSE IF Len(uniqueNotes) = 2 THEN rootNote \o "5"
            ELSE IF Len(uniqueNotes) = 3
                 THEN IF hasMinorThird THEN rootNote \o "m"
                      ELSE IF hasMajorThird THEN rootNote
                      ELSE rootNote \o "sus"
            ELSE IF hasSeventh /\ hasMinorThird THEN rootNote \o "m7"
            ELSE IF hasSeventh THEN rootNote \o "7"
            ELSE rootNote \o "add9"
      IN [chord |-> label, rootNote |-> rootNote]

\* detectChord(frequencyData, sampleRate)
detectChord(frequencyData, sampleRate) ==
    ClassifyPeaks(FindPeaks(frequencyData, sampleRate))

\* the four features updateData extracts from the analyser buffers
ExtractFeatures(frequencyData, timeData, sampleRate) ==
    [spectralCentroid |-> calculateSpectralCentroid(frequencyData, sampleRate),
     spectralRolloff |-> calculateSpectralRolloff(frequencyData, sampleRate),
     roughness |-> calculateRoughness(frequencyData),
     zeroCrossingRate |-> calculateZeroCrossingRate(timeData)]

\* mutant: the tempo is cut to an integer instead of rounded
calculateRhythmMetricsFloor(lowSum, variation) ==
    [tempo |-> (1200 + lowSum) \div 20,
     beatStrength |-> IF lowSum >= 1500 THEN Quotient(1, 1)
                      ELSE Quotient(lowSum, 1500),
     syncopation |-> IF variation >= 5000 THEN Quotient(1, 1)
                     ELSE Quotient(variation, 5000)]

\* calculateRhythmMetrics, from lowSum = 10 * lowFreqEnergy and variation
calculateRhythmMetrics(lowSum, variation) ==
    [tempo |-> (1200 + lowSum + 10) \div 20,
     beatStrength |-> IF lowSum >= 1500 THEN Quotient(1, 1)
                      ELSE Quotient(lowSum, 1500),
     syncopation |-> IF variation >= 5000 THEN Quotient(1, 1)
                     ELSE Quotient(variation, 5000)]

\* frequencyData.slice(0, 10).reduce((sum, val) => sum + val, 0)
LowSum(frequencyData) ==
    LET low == {i \in DOMAIN frequencyData : i <= 10}
    IN SumSet(low, [i \in low |-> frequencyData[i]])

\* the loop "for (let i = 1; i < 50; i++) variation += ..." on a buffer of
\* at least 50 bins
Variation(frequencyData) ==
    LET steps == 2..50
    IN SumSet(steps, [i \in steps |->
                         Abs(frequencyData[i] - frequencyData[i - 1])])

\* calculateRhythmMetrics(timeData, frequencyData): on less than 50 bins
\* the loop reads frequencyData[i] past the end, which is undefined, and
\* variation is NaN, as is Math.min(1, variation / 5000)
RhythmMetricsOf(frequencyData) ==
    IF Len(frequencyData) >= 50
    THEN calculateRhythmMetrics(LowSum(frequencyData), Variation(frequencyData))
    ELSE [calculateRhythmMetrics(LowSum(frequencyData), 0)
             EXCEPT !.syncopation = NaN]

\* the analysis inputs of a frame whose first bins are frequencyData and
\* which has no peak
SpectrumOf(frequencyData) ==
    [lowSum |-> LowSum(frequencyData), variation |-> Variation(frequencyData),
     peaks |-> <<>>]

\* rhythmMetrics of the initial state and of the load handlers
DefaultRhythm == [tempo |-> 120, beatStrength |-> Zero, syncopation |-> Zero]

\* p.freqRange[0] + p.freqRange[1], twice avgFreq
AvgFreq2(p) == p.freqRange[1] + p.freqRange[2]

\* Math.abs(avgFreq - freq) < minDistance
PeakMatches(p, freq) == Abs(AvgFreq2(p) - 2 * freq) < 2 * PEAK_MIN_DISTANCE

\* mutant: the last match instead of the first
FindParticleLast(particles, freq) ==
    IF \E i \in DOMAIN particles : PeakMatches(particles[i], freq)
    THEN CHOOSE i \in DOMAIN particles :
            /\ PeakMatches(particles[i], freq)
            /\ \A k \in (i + 1)..Len(particles) : ~PeakMatches(particles[k], freq)
    ELSE 0

\* dynamicParticles.find(...): index of the first match, 0 for undefined
FindParticle(particles, freq) ==
    IF \E i \in DOMAIN particles : PeakMatches(particles[i], freq)
    THEN CHOOSE i \in DOMAIN particles :
            /\ PeakMatches(particles[i], freq)
            /\ \A k \in 1..(i - 1) : ~PeakMatches(particles[k], freq)
    ELSE 0

\* obj is the identity of the JavaScript object: <<freq, createdAt, time of
\* the copy>>, the creation time for the object built here
newParticle(freq, t) ==
    [obj |-> <<freq, t, t>>,
     id |-> <<freq, t>>,
     freqRange |-> <<Max2(FREQ_MIN, freq - FREQ_HALF_WIDTH),
                     Min2(FREQ_MAX, freq + FREQ_HALF_WIDTH)>>,
     createdAt |-> t,
     lastActive |-> t,
     isActive |-> TRUE]

\* existingParticle.lastActive = currentTime; existingParticle.isActive = true
RefreshParticle(p, t) == [p EXCEPT !.lastActive = t, !.isActive = TRUE]

\* the loop over the peaks of a frame. particles: the objects of the array
\* read at the start of the frame, updated in place; added: what the last
\* set({dynamicParticles: [...dynamicParticles, newParticle]}) appended
RECURSIVE PeakLoop(_, _, _, _, _)
PeakLoop(peaks, i, particles, added, t) ==
    IF i > Len(peaks) THEN [particles |-> particles, added |-> added]
    ELSE LET existing == FindParticle(particles, peaks[i])
         IN IF existing # 0
            THEN PeakLoop(peaks, i + 1,
                          [particles EXCEPT ![existing] = RefreshParticle(@, t)],
                          added, t)
            ELSE PeakLoop(peaks, i + 1, particles,
                          <<newParticle(peaks[i], t)>>, t)

\* { ...p, isActive: false }
InactiveCopy(p, t) == [p EXCEPT !.isActive = FALSE, !.obj = <<@[1], @[2], t>>]

\* timeSinceActive > 300
IsSilent(p, t) == t - p.lastActive > INACTIVE_MS

\* timeSinceActive < 20000
IsKept(p, t) == t - p.lastActive < EXPIRY_MS

\* updatedParticles
SweepParticles(particles, t) ==
    SelectSeq([i \in DOMAIN particles |->
                  IF IsSilent(particles[i], t)
                  THEN InactiveCopy(particles[i], t) ELSE particles[i]],
              LAMBDA p : IsKept(p, t))

\* the block "if (get().isPlaying)" of updateData: the value of
\* dynamicParticles in the store when the block is left
TrackParticles(particles, peaks, t) ==
    LET loop == PeakLoop(peaks, 1, particles, <<>>, t)
        updatedParticles == SweepParticles(loop.particles, t)
    IN IF Len(updatedParticles) # Len(particles)
       THEN updatedParticles
       ELSE loop.particles \o loop.added

\* the peak tracker runs in every frame, playing or not
TrackAlways(playing, particles, peaks, t) ==
    TrackParticles(particles, peaks, t)

\* "if (get().isPlaying)": the peak tracker runs only while playing
TrackIfPlaying(playing, particles, peaks, t) ==
    IF playing THEN TrackParticles(particles, peaks, t) ELSE particles

\* mutant: an entry of exactly 2000 ms is kept
InHistoryWindowInclusive(t, h) == t - h.timestamp <= CHORD_HISTORY_MS

\* now - h.timestamp < 2000
InHistoryWindow(t, h) == t - h.timestamp < CHORD_HISTORY_MS

\* mutant: more than 0.5 s are needed
HistoryGateStrict(audioTime, lastRecordTime) ==
    audioTime - lastRecordTime > HISTORY_INTERVAL_MS

\* mutant: the distance counts in either direction
HistoryGateEitherWay(audioTime, lastRecordTime) ==
    Abs(audioTime - lastRecordTime) >= HISTORY_INTERVAL_MS

\* audioTime - lastRecordTime >= 0.5
HistoryGate(audioTime, lastRecordTime) ==
    audioTime - lastRecordTime >= HISTORY_INTERVAL_MS

\* mutant: beyond the cap the newest sample is dropped
CapHistoryDropsNewest(h) ==
    IF Len(h) > HISTORY_CAP THEN SubSeq(h, 1, HISTORY_CAP) ELSE h

\* if (analysisHistory.length > 1000) analysisHistory.shift()
CapHistory(h) == IF Len(h) > HISTORY_CAP THEN Tail(h) ELSE h

\* the objects of the array read at the start of the frame that the peak
\* loop updates in place
RefreshedObjs(particles, peaks, t) ==
    LET loop == PeakLoop(peaks, 1, particles, <<>>, t)
    IN {particles[i].obj : i \in {j \in DOMAIN particles :
                                      loop.particles[j] # particles[j]}}

\* an array held by a component, after the objects in objs were updated in
\* place
RefreshHeld(particles, objs, t) ==
    [i \in DOMAIN particles |->
        IF particles[i].obj \in objs THEN RefreshParticle(particles[i], t)
        ELSE particles[i]]

\* A component that read the store holds references: held is the present
\* content of the objects it was given (the Map of chordTransitions with its
\* inner Maps, the array of dynamicParticles with its objects, the array of
\* analysisHistory), given their content when it read them. mapLive and
\* historyLive: the Map / array it holds is still the one of the store;
\* tableShared: the inner Maps it holds are still those of the store.
NoConsumer ==
    [held |-> [chordTransitions |-> EmptyMap, dynamicParticles |-> <<>>,
               analysisHistory |-> <<>>],
     given |-> [chordTransitions |-> EmptyMap, dynamicParticles |-> <<>>,
                analysisHistory |-> <<>>],
     mapLive |-> FALSE, tableShared |-> FALSE, historyLive |-> FALSE]

\* transitions.get(prevChord) is an object the component holds
SharesInner(c, prevChord) ==
    \/ c.mapLive
    \/ c.tableShared /\ prevChord \in DOMAIN c.held.chordTransitions

\* chordTransitions: new Map() replaces the Map and its inner Maps
Unshare(c) == [c EXCEPT !.mapLive = FALSE, !.tableShared = FALSE]

-----------------------------------------------------------------------------
(* State *)

Store == [currentChord |-> currentChord, currentNote |-> currentNote,
          songKey |-> songKey, chordDegree |-> chordDegree,
          chordTransitions |-> chordTransitions,
          predictability |-> predictability,
          chordHistory |-> chordHistory,
          analysisHistory |-> analysisHistory,
          rhythmMetrics |-> rhythmMetrics,
          dynamicParticles |-> dynamicParticles,
          isPlaying |-> isPlaying,
          currentTime |-> currentTime,
          now |-> now]

InitStore ==
    /\ now = 0
    /\ chordHistory = <<>>
    /\ currentChord = Undetected
    /\ currentNote = Undetected
    /\ songKey = Undetected
    /\ chordDegree = Undetected
    /\ chordTransitions = EmptyMap
    /\ predictability = Zero
    /\ isPlaying = FALSE
    /\ currentTime = 0
    /\ analysisHistory = <<>>
    /\ currentFileName = NoFile
    /\ rhythmMetrics = DefaultRhythm
    /\ dynamicParticles = <<>>
    /\ elementTime = 0
    /\ played = 0
    /\ frames = 0
    /\ observed = [det |-> [chord |-> Undetected, rootNote |-> Undetected],
                   spectrum |-> QuietSpectrum]
    /\ consumer = NoConsumer
    /\ lastOp = "create"
    /\ prev = Store
    /\ transcription = NoTranscription

\* the store after construction, no pure function under test
Init == InitStore /\ call = NoCall

\* The store after 499.5 s of a silent track: frames more than 2 s apart
\* recorded a sample every 0.5 s of playback, 999 in all, the last frame read
\* Date.now() = 0, and playback was paused and has just been resumed.
FullHistory ==
    [i \in 1..(HISTORY_CAP - 1) |->
        [time |-> (i - 1) * HISTORY_INTERVAL_MS, chord |-> Undetected,
         chordDegree |-> Undetected,
         tempo |-> calculateRhythmMetrics(0, 0).tempo,
         beatStrength |-> calculateRhythmMetrics(0, 0).beatStrength]]

InitCap ==
    /\ now = 0
    /\ chordHistory = <<[chord |-> Undetected, note |-> Undetected, timestamp |-> 0]>>
    /\ currentChord = Undetected
    /\ currentNote = Undetected
    /\ songKey = Undetected
    /\ chordDegree = Undetected
    /\ chordTransitions = EmptyMap
    /\ predictability = Zero
    /\ isPlaying = TRUE
    /\ currentTime = FullHistory[Len(FullHistory)].time
    /\ analysisHistory = FullHistory
    /\ currentFileName \in Files
    /\ rhythmMetrics = calculateRhythmMetrics(0, 0)
    /\ dynamicParticles = <<>>
    /\ elementTime = FullHistory[Len(FullHistory)].time
    /\ played = 0
    /\ frames = 0
    /\ observed = [det |-> [chord |-> Undetected, rootNote |-> Undetected],
                   spectrum |-> QuietSpectrum]
    /\ consumer = NoConsumer
    /\ call = NoCall
    /\ lastOp = "togglePlayback"
    /\ prev = [Store EXCEPT !.isPlaying = FALSE]
    /\ transcription = NoTranscription

-----------------------------------------------------------------------------
(* updateData: one animation frame *)

updateData(det, spectrum, dt) ==
    LET t == now + dt
        metrics == calculateRhythmMetrics(spectrum.lowSum, spectrum.variation)
        pushed == Append(chordHistory,
                         [chord |-> det.chord, note |-> det.rootNote, timestamp |-> t])
        history == SelectSeq(pushed, LAMBDA h : InHistoryWindow(t, h))
        prevChord == history[Len(history) - 1].chord
        currChord == history[Len(history)].chord
        record == Len(history) > 1 /\ IsTransition(prevChord, currChord)
        transitions == IF record
                       THEN RecordTransition(chordTransitions, prevChord, currChord)
                       ELSE chordTransitions
        recentChords == SelectSeq(history,
                                  LAMBDA h : t - h.timestamp < CHORD_CHANGE_THRESHOLD)
        stable == StableChord(recentChords)
        commit == ShouldCommit(stable.stableChord, currentChord)
        key == detectKey(history)
        newChord == IF commit THEN stable.stableChord ELSE currentChord
        newDegree == IF commit THEN getChordDegree(stable.stableChord, key)
                     ELSE chordDegree
        lastRecordTime == IF Len(analysisHistory) > 0
                          THEN analysisHistory[Len(analysisHistory)].time
                          ELSE -1000
        recording == HistoryGate(currentTime, lastRecordTime)
        sample == [time |-> currentTime, chord |-> newChord,
                   chordDegree |-> newDegree, tempo |-> metrics.tempo,
                   beatStrength |-> metrics.beatStrength]
    IN /\ now' = t
       /\ chordHistory' = history
       /\ chordTransitions' = transitions
       /\ predictability' = IF record THEN Predictability(transitions)
                            ELSE predictability
       /\ currentChord' = newChord
       /\ currentNote' = IF commit THEN stable.stableNote ELSE currentNote
       /\ songKey' = IF commit THEN key ELSE songKey
       /\ chordDegree' = newDegree
       /\ dynamicParticles' =
            TrackIfPlaying(isPlaying, dynamicParticles, spectrum.peaks, t)
       /\ rhythmMetrics' = metrics
       /\ analysisHistory' =
            IF recording THEN CapHistory(Append(analysisHistory, sample))
            ELSE analysisHistory
       /\ played' = IF recording THEN 0 ELSE played
       /\ observed' = [det |-> det, spectrum |-> spectrum]
       /\ frames' = frames + 1
       /\ consumer' =
            [consumer EXCEPT
               !.held.chordTransitions =
                   IF record /\ SharesInner(consumer, prevChord)
                   THEN RecordTransition(@, prevChord, currChord) ELSE @,
               !.mapLive = @ /\ ~record,
               !.held.analysisHistory =
                   IF recording /\ consumer.historyLive
                   THEN CapHistory(Append(@, sample)) ELSE @,
               !.historyLive = @ /\ ~recording,
               !.held.dynamicParticles =
                   IF isPlaying
                   THEN RefreshHeld(@, RefreshedObjs(dynamicParticles,
                                                     spectrum.peaks, t), t)
                   ELSE @]
       /\ lastOp' = "updateData"
       /\ prev' = Store
       /\ UNCHANGED <<isPlaying, currentTime, currentFileName, elementTime, call,
                   transcription>>

-----------------------------------------------------------------------------
(* loadAudioFile and its canplay / error handlers *)

\* mutant: a successful load keeps the peak events
handleCanPlayKeepsParticles(file) ==
    /\ currentFileName' = file
    /\ isPlaying' = FALSE
    /\ songKey' = Undetected
    /\ chordDegree' = Undetected
    /\ rhythmMetrics' = DefaultRhythm
    /\ chordTransitions' = EmptyMap
    /\ predictability' = Zero
    /\ elementTime' = 0
    /\ lastOp' = "handleCanPlay"
    /\ prev' = Store
    /\ consumer' = Unshare(consumer)
    /\ UNCHANGED <<now, chordHistory, currentChord, currentNote, currentTime,
                   analysisHistory, dynamicParticles, played, observed, frames, call,
                   transcription>>

\* mutant: handleCanPlay resets the key but keeps the degree
handleCanPlayKeepsDegree(file) ==
    /\ currentFileName' = file
    /\ isPlaying' = FALSE
    /\ songKey' = Undetected
    /\ dynamicParticles' = <<>>
    /\ rhythmMetrics' = DefaultRhythm
    /\ chordTransitions' = EmptyMap
    /\ predictability' = Zero
    /\ elementTime' = 0
    /\ lastOp' = "handleCanPlay"
    /\ prev' = Store
    /\ consumer' = Unshare(consumer)
    /\ UNCHANGED <<now, chordHistory, currentChord, currentNote, chordDegree,
                   currentTime, analysisHistory, played, observed, frames,
                   call,
                   transcription>>

\* loadAudioFile(file) up to the canplay event: the promise executor pauses
\* the element (isPlaying: false) and handleCanPlay resets the store
handleCanPlay(file) ==
    /\ currentFileName' = file
    /\ isPlaying' = FALSE
    /\ songKey' = Undetected
    /\ chordDegree' = Undetected
    /\ dynamicParticles' = <<>>
    /\ rhythmMetrics' = DefaultRhythm
    /\ chordTransitions' = EmptyMap
    /\ predictability' = Zero
    /\ elementTime' = 0
    /\ lastOp' = "handleCanPlay"
    /\ prev' = Store
    /\ consumer' = Unshare(consumer)
    /\ UNCHANGED <<now, chordHistory, currentChord, currentNote, currentTime,
                   analysisHistory, played, observed, frames, call,
                   transcription>>

\* mutant: the error handler keeps the transition table
handleErrorKeepsTable(file) ==
    /\ currentFileName' = NoFile
    /\ isPlaying' = FALSE
    /\ songKey' = Undetected
    /\ chordDegree' = Undetected
    /\ rhythmMetrics' = DefaultRhythm
    /\ elementTime' = 0
    /\ lastOp' = "handleError"
    /\ prev' = Store
    /\ consumer' = Unshare(consumer)
    /\ UNCHANGED <<now, chordHistory, currentChord, currentNote, currentTime,
                   analysisHistory, chordTransitions, predictability,
                   dynamicParticles, played, observed, frames, call,
                   transcription>>

\* loadAudioFile(file) up to the error event
handleError(file) ==
    /\ currentFileName' = NoFile
    /\ isPlaying' = FALSE
    /\ songKey' = Undetected
    /\ chordDegree' = Undetected
    /\ rhythmMetrics' = DefaultRhythm
    /\ chordTransitions' = EmptyMap
    /\ predictability' = Zero
    /\ elementTime' = 0
    /\ lastOp' = "handleError"
    /\ prev' = Store
    /\ consumer' = Unshare(consumer)
    /\ UNCHANGED <<now, chordHistory, currentChord, currentNote, currentTime,
                   analysisHistory, dynamicParticles, played, observed, frames, call,
                   transcription>>

-----------------------------------------------------------------------------
(* Playback: togglePlayback, the timeupdate listener, seekTo, replay *)

\* togglePlayback with a source loaded: pause() when playing, else play(),
\* whose promise resolves (isPlaying: true) or rejects (isPlaying: false)
togglePlayback(resolved) ==
    /\ currentFileName # NoFile
    /\ isPlaying' = IF isPlaying THEN FALSE ELSE resolved
    /\ lastOp' = "togglePlayback"
    /\ prev' = Store
    /\ UNCHANGED <<now, chordHistory, currentChord, currentNote, songKey,
                   chordDegree, chordTransitions, predictability, currentTime,
                   analysisHistory, currentFileName, rhythmMetrics,
                   dynamicParticles, elementTime, played, observed, frames, consumer,
                   call,
                   transcription>>

\* the timeupdate listener of initAudio, after the element has played adv
\* ms further (adv = 0: the event of a position reset by a load)
timeupdate(adv) ==
    /\ IF adv > 0 THEN isPlaying ELSE elementTime # currentTime
    /\ elementTime' = elementTime + adv
    /\ currentTime' = elementTime + adv
    /\ played' = Min2(played + adv, HISTORY_INTERVAL_MS)
    /\ lastOp' = "timeupdate"
    /\ prev' = Store
    /\ UNCHANGED <<now, chordHistory, currentChord, currentNote, songKey,
                   chordDegree, chordTransitions, predictability, isPlaying,
                   analysisHistory, currentFileName, rhythmMetrics,
                   dynamicParticles, observed, frames, consumer,
                   call,
                   transcription>>

\* seekTo(positionSeconds), duration being the length of the track
seekTo(position, duration) ==
    /\ position >= 0
    /\ elementTime' = Min2(Max2(position, 0), duration)
    /\ currentTime' = Min2(Max2(position, 0), duration)
    /\ lastOp' = "seekTo"
    /\ prev' = Store
    /\ UNCHANGED <<now, chordHistory, currentChord, currentNote, songKey,
                   chordDegree, chordTransitions, predictability, isPlaying,
                   analysisHistory, currentFileName, rhythmMetrics,
                   dynamicParticles, played, observed, frames, consumer,
                   call,
                   transcription>>

\* replay(): back to position 0, and play() when the element is paused
replay(resolved) ==
    /\ elementTime' = 0
    /\ currentTime' = 0
    /\ isPlaying' = IF isPlaying THEN TRUE
                    ELSE resolved /\ currentFileName # NoFile
    /\ lastOp' = "replay"
    /\ prev' = Store
    /\ UNCHANGED <<now, chordHistory, currentChord, currentNote, songKey,
                   chordDegree, chordTransitions, predictability,
                   analysisHistory, currentFileName, rhythmMetrics,
                   dynamicParticles, played, observed, frames, consumer,
                   call,
                   transcription>>

\* a component renders: useAudioStore() hands it the state of the store
useAudioStore ==
    /\ consumer' =
          [held |-> [chordTransitions |-> chordTransitions,
                     dynamicParticles |-> dynamicParticles,
                     analysisHistory |-> analysisHistory],
           given |-> [chordTransitions |-> chordTransitions,
                      dynamicParticles |-> dynamicParticles,
                      analysisHistory |-> analysisHistory],
           mapLive |-> TRUE, tableShared |-> TRUE, historyLive |-> TRUE]
    /\ lastOp' = "useAudioStore"
    /\ prev' = Store
    /\ UNCHANGED <<now, chordHistory, currentChord, currentNote, songKey,
                   chordDegree, chordTransitions, predictability, isPlaying,
                   currentTime, analysisHistory, currentFileName,
                   rhythmMetrics, dynamicParticles, elementTime, played,
                   observed, frames, call,
                   transcription>>

\* the feature extraction at the head of updateData, on the buffers of
\* call.args
extractFeatures ==
    /\ call.fn = "none"
    /\ call' = [fn |-> "extractFeatures", args |-> call.args,
                result |-> ExtractFeatures(call.args.frequencyData,
                                           call.args.timeData,
                                           call.args.sampleRate)]
    /\ UNCHANGED <<now, chordHistory, currentChord, currentNote, songKey,
                   chordDegree, chordTransitions, predictability, isPlaying,
                   currentTime, analysisHistory, currentFileName,
                   rhythmMetrics, dynamicParticles, elementTime, played,
                   observed, frames, consumer, lastOp, prev,
                   transcription>>

\* a call frequencyToNote(call.args)
callFrequencyToNote ==
    /\ call.fn = "none"
    /\ call' = [fn |-> "frequencyToNote", args |-> call.args,
                result |-> frequencyToNote(call.args)]
    /\ UNCHANGED <<now, chordHistory, currentChord, currentNote, songKey,
                   chordDegree, chordTransitions, predictability, isPlaying,
                   currentTime, analysisHistory, currentFileName,
                   rhythmMetrics, dynamicParticles, elementTime, played,
                   observed, frames, consumer, lastOp, prev,
                   transcription>>

\* a call of detectChord on a frame with the peaks call.args
callDetectChord ==
    /\ call.fn = "none"
    /\ call' = [fn |-> "detectChord", args |-> call.args,
                result |-> ClassifyPeaks(call.args)]
    /\ UNCHANGED <<now, chordHistory, currentChord, currentNote, songKey,
                   chordDegree, chordTransitions, predictability, isPlaying,
                   currentTime, analysisHistory, currentFileName,
                   rhythmMetrics, dynamicParticles, elementTime, played,
                   observed, frames, consumer, lastOp, prev,
                   transcription>>

\* a call detectChord(frequencyData, sampleRate)
callDetectChordOnBuffer ==
    /\ call.fn = "none"
    /\ call' = [fn |-> "detectChord(buffer)", args |-> call.args,
                result |-> detectChord(call.args.frequencyData,
                                       call.args.sampleRate)]
    /\ UNCHANGED <<now, chordHistory, currentChord, currentNote, songKey,
                   chordDegree, chordTransitions, predictability, isPlaying,
                   currentTime, analysisHistory, currentFileName,
                   rhythmMetrics, dynamicParticles, elementTime, played,
                   observed, frames, consumer, lastOp, prev,
                   transcription>>

\* the duration of the store: the loadedmetadata and timeupdate listeners
\* keep it at audioElement.duration || 0, the length of the loaded track
duration ==
    IF currentFileName = NoFile THEN 0 ELSE DurationOf(currentFileName)

\* exportTimbreData(): the chord progression of the document it builds
exportTimbreData ==
    /\ call' = [fn |-> "exportTimbreData", args |-> <<>>,
                result |-> ChordProgression(analysisHistory, duration)]
    /\ UNCHANGED <<now, chordHistory, currentChord, currentNote, songKey,
                   chordDegree, chordTransitions, predictability, isPlaying,
                   currentTime, analysisHistory, currentFileName,
                   rhythmMetrics, dynamicParticles, elementTime, played,
                   observed, frames, consumer, lastOp, prev,
                   transcription>>

-----------------------------------------------------------------------------
(* transcribeLyrics: an async function, one action per await and per timer *)

\* the catch block: isTranscribingLyrics false, transcriptionProgress 0.
\* It clears no timer
CatchError(t) ==
    [t EXCEPT !.pc = "failed",
              !.isTranscribingLyrics = FALSE,
              !.transcriptionProgress = 0,
              !.outcome = "failed"]

\* transcribeLyrics() up to the fetch of the audio blob; the button that
\* calls it is disabled while isTranscribingLyrics
transcribeLyrics ==
    /\ currentFileName # NoFile
    /\ ~transcription.isTranscribingLyrics
    /\ transcription.calls < MaxTranscriptions
    /\ transcription' = [transcription EXCEPT
                            !.pc = "blob",
                            !.isTranscribingLyrics = TRUE,
                            !.transcriptionProgress = 0,
                            !.calls = @ + 1,
                            !.outcome = "none"]
    /\ UNCHANGED <<now, chordHistory, currentChord, currentNote, songKey,
                   chordDegree, chordTransitions, predictability, isPlaying,
                   currentTime, analysisHistory, currentFileName,
                   rhythmMetrics, dynamicParticles, elementTime, played,
                   observed, frames, consumer, call, lastOp, prev>>

\* the blob fetch resolves (progress 10, compression starts) or rejects,
\* by itself or by the abort after 30 s
blobFetched(ok) ==
    /\ transcription.pc = "blob"
    /\ transcription' =
          IF ok THEN [transcription EXCEPT !.pc = "compress",
                                           !.transcriptionProgress = 10]
          ELSE CatchError(transcription)
    /\ UNCHANGED <<now, chordHistory, currentChord, currentNote, songKey,
                   chordDegree, chordTransitions, predictability, isPlaying,
                   currentTime, analysisHistory, currentFileName,
                   rhythmMetrics, dynamicParticles, elementTime, played,
                   observed, frames, consumer, call, lastOp, prev>>

\* the compression ends: progress 20, the 3 min timeout and the progress
\* interval are armed and the request is sent; or it throws
compressed(ok) ==
    /\ transcription.pc = "compress"
    /\ transcription' =
          IF ok THEN [transcription EXCEPT !.pc = "api",
                                           !.transcriptionProgress = 20,
                                           !.apiTimeout = TRUE,
                                           !.progressIntervals = @ + 1]
          ELSE CatchError(transcription)
    /\ UNCHANGED <<now, chordHistory, currentChord, currentNote, songKey,
                   chordDegree, chordTransitions, predictability, isPlaying,
                   currentTime, analysisHistory, currentFileName,
                   rhythmMetrics, dynamicParticles, elementTime, played,
                   observed, frames, consumer, call, lastOp, prev>>

\* a tick of a progress interval, every 3 s
progressTick ==
    /\ transcription.progressIntervals > 0
    /\ transcription.transcriptionProgress < 80
    /\ transcription' = [transcription EXCEPT !.transcriptionProgress = @ + 3]
    /\ UNCHANGED <<now, chordHistory, currentChord, currentNote, songKey,
                   chordDegree, chordTransitions, predictability, isPlaying,
                   currentTime, analysisHistory, currentFileName,
                   rhythmMetrics, dynamicParticles, elementTime, played,
                   observed, frames, consumer, call, lastOp, prev>>

\* fetch("/api/transcribe") resolves, with any status: both timers are
\* cleared, progress 80
apiResponded(ok) ==
    /\ transcription.pc = "api"
    /\ transcription' = [transcription EXCEPT
                            !.pc = IF ok THEN "text" ELSE "errorText",
                            !.apiTimeout = FALSE,
                            !.progressIntervals = @ - 1,
                            !.transcriptionProgress = 80]
    /\ UNCHANGED <<now, chordHistory, currentChord, currentNote, songKey,
                   chordDegree, chordTransitions, predictability, isPlaying,
                   currentTime, analysisHistory, currentFileName,
                   rhythmMetrics, dynamicParticles, elementTime, played,
                   observed, frames, consumer, call, lastOp, prev>>

\* fetch("/api/transcribe") rejects: a network error, or the abort of the
\* 3 min timeout. Control passes to the catch block
apiRejected(timedOut) ==
    /\ transcription.pc = "api"
    /\ timedOut => transcription.apiTimeout
    /\ transcription' = [CatchError(transcription) EXCEPT
                            !.apiTimeout = IF timedOut THEN FALSE ELSE @,
                            !.rejected = TRUE]
    /\ UNCHANGED <<now, chordHistory, currentChord, currentNote, songKey,
                   chordDegree, chordTransitions, predictability, isPlaying,
                   currentTime, analysisHistory, currentFileName,
                   rhythmMetrics, dynamicParticles, elementTime, played,
                   observed, frames, consumer, call, lastOp, prev>>

\* the body of the response is read: the result is stored (progress 100,
\* a timeout of 2 s armed), or the error status is thrown
textRead ==
    /\ transcription.pc \in {"text", "errorText"}
    /\ transcription' =
          IF transcription.pc = "text"
          THEN [transcription EXCEPT !.pc = "done",
                                     !.isTranscribingLyrics = FALSE,
                                     !.transcriptionProgress = 100,
                                     !.resetTimeouts = @ + 1,
                                     !.outcome = "done"]
          ELSE CatchError(transcription)
    /\ UNCHANGED <<now, chordHistory, currentChord, currentNote, songKey,
                   chordDegree, chordTransitions, predictability, isPlaying,
                   currentTime, analysisHistory, currentFileName,
                   rhythmMetrics, dynamicParticles, elementTime, played,
                   observed, frames, consumer, call, lastOp, prev>>

\* the timeout armed by a successful call: transcriptionProgress 0
resetProgress ==
    /\ transcription.resetTimeouts > 0
    /\ transcription' = [transcription EXCEPT !.resetTimeouts = @ - 1,
                                              !.transcriptionProgress = 0]
    /\ UNCHANGED <<now, chordHistory, currentChord, currentNote, songKey,
                   chordDegree, chordTransitions, predictability, isPlaying,
                   currentTime, analysisHistory, currentFileName,
                   rhythmMetrics, dynamicParticles, elementTime, played,
                   observed, frames, consumer, call, lastOp, prev>>

\* the stem merge of a frame on one bin
mergeStems ==
    /\ call.fn = "none"
    /\ call' = [fn |-> "mergeStems", args |-> call.args,
                result |-> BlendBin(call.args.stemData, call.args.main)]
    /\ UNCHANGED <<now, chordHistory, currentChord, currentNote, songKey,
                   chordDegree, chordTransitions, predictability, isPlaying,
                   currentTime, analysisHistory, currentFileName,
                   rhythmMetrics, dynamicParticles, elementTime, played,
                   observed, frames, consumer, lastOp, prev,
                   transcription>>

\* a call getChordDegree(chord, key)
callGetChordDegree ==
    /\ call.fn = "none"
    /\ call' = [fn |-> "getChordDegree", args |-> call.args,
                result |-> getChordDegree(call.args.chord, call.args.key)]
    /\ UNCHANGED <<now, chordHistory, currentChord, currentNote, songKey,
                   chordDegree, chordTransitions, predictability, isPlaying,
                   currentTime, analysisHistory, currentFileName,
                   rhythmMetrics, dynamicParticles, elementTime, played,
                   observed, frames, consumer, lastOp, prev,
                   transcription>>

\* a call detectKey(call.args)
callDetectKey ==
    /\ call.fn = "none"
    /\ call' = [fn |-> "detectKey", args |-> call.args,
                result |-> detectKey(call.args)]
    /\ UNCHANGED <<now, chordHistory, currentChord, currentNote, songKey,
                   chordDegree, chordTransitions, predictability, isPlaying,
                   currentTime, analysisHistory, currentFileName,
                   rhythmMetrics, dynamicParticles, elementTime, played,
                   observed, frames, consumer, lastOp, prev,
                   transcription>>

\* a call calculateRhythmMetrics(timeData, call.args)
callCalculateRhythmMetrics ==
    /\ call.fn = "none"
    /\ call' = [fn |-> "calculateRhythmMetrics", args |-> call.args,
                result |-> RhythmMetricsOf(call.args)]
    /\ UNCHANGED <<now, chordHistory, currentChord, currentNote, songKey,
                   chordDegree, chordTransitions, predictability, isPlaying,
                   currentTime, analysisHistory, currentFileName,
                   rhythmMetrics, dynamicParticles, elementTime, played,
                   observed, frames, consumer, lastOp, prev,
                   transcription>>

-----------------------------------------------------------------------------
(* Specifications *)

Frame ==
    /\ now + FrameStep <= MaxFrames * FrameStep
    /\ \E det \in DetectResults : updateData(det, QuietSpectrum, FrameStep)

LoadCanPlay == \E file \in Files : handleCanPlay(file)

LoadError == \E file \in Files : handleError(file)

Next == Frame \/ LoadCanPlay \/ LoadError

Spec == Init /\ [][Next]_vars

KeyFrame ==
    /\ now + KeyFrameStep <= MaxKeyFrames * KeyFrameStep
    /\ \E det \in PairDetectResults : updateData(det, QuietSpectrum, KeyFrameStep)

NextKey == KeyFrame \/ LoadCanPlay \/ LoadError

SpecKey == Init /\ [][NextKey]_vars

QuorumFrame ==
    /\ now + QuorumFrameStep <= MaxQuorumFrames * QuorumFrameStep
    /\ \E det \in QuorumDetectResults : updateData(det, QuietSpectrum, QuorumFrameStep)

\* the load handlers leave chordHistory and currentChord alone: frames only
NextQuorum == QuorumFrame

SpecQuorum == Init /\ [][NextQuorum]_vars

PeakFrame ==
    /\ frames < MaxPeakFrames
    /\ \E peaks \in PeakLists : \E dt \in PeakFrameSteps :
          updateData(SilentDetect, [LoudSpectrum EXCEPT !.peaks = peaks], dt)

HiResFrame ==
    /\ frames < MaxPeakFrames
    /\ \E peaks \in HiResPeakLists : \E dt \in PeakFrameSteps :
          updateData(SilentDetect, [LoudSpectrum EXCEPT !.peaks = peaks], dt)

TogglePlayback == \E resolved \in BOOLEAN : togglePlayback(resolved)

NextPeaks == PeakFrame \/ TogglePlayback \/ LoadCanPlay \/ LoadError

SpecPeaks == Init /\ [][NextPeaks]_vars

NextHiRes == HiResFrame \/ TogglePlayback \/ LoadCanPlay

SpecHiRes == Init /\ [][NextHiRes]_vars

PlayFrame ==
    /\ frames < MaxPlayFrames
    /\ updateData(SilentDetect, QuietSpectrum, PlayFrameStep)

Tick ==
    \E adv \in {0, TickStep} :
        /\ elementTime + adv <= Duration
        /\ timeupdate(adv)

Seek == \E position \in SeekPositions : seekTo(position, Duration)

Replay == \E resolved \in BOOLEAN : replay(resolved)

NextPlay ==
    PlayFrame \/ Tick \/ TogglePlayback \/ Seek \/ Replay \/ LoadCanPlay

SpecPlay == Init /\ [][NextPlay]_vars

SnapFrame ==
    /\ frames < MaxSnapFrames
    /\ \E det \in PairDetectResults : \E peaks \in SnapPeakLists :
          updateData(det, [QuietSpectrum EXCEPT !.peaks = peaks], SnapFrameStep)

NextSnap ==
    SnapFrame \/ useAudioStore \/ TogglePlayback \/ LoadCanPlay

SpecSnap == Init /\ [][NextSnap]_vars

InitFeatures ==
    /\ InitStore
    /\ \E frequencyData \in ArraysUpTo(FeatureMagnitudes, MaxBins) :
       \E timeData \in ArraysUpTo(FeatureSamples, MaxSamples) :
       \E sampleRate \in SampleRates :
          call = [NoCall EXCEPT !.args = [frequencyData |-> frequencyData,
                                          timeData |-> timeData,
                                          sampleRate |-> sampleRate]]

NextFeatures == extractFeatures

SpecFeatures == InitFeatures /\ [][NextFeatures]_vars

InitPitch ==
    /\ InitStore
    /\ \E frequency \in PitchFrequencies :
          call = [NoCall EXCEPT !.args = frequency]

NextPitch == callFrequencyToNote

SpecPitch == InitPitch /\ [][NextPitch]_vars

InitChord ==
    /\ InitStore
    /\ \E frame \in ChordFrames :
          /\ frame.strongest \in frame.notes
          /\ call = [NoCall EXCEPT !.args = FramePeaksOf(frame)]

NextChord == callDetectChord

SpecChord == InitChord /\ [][NextChord]_vars

BlobFetched == \E ok \in BOOLEAN : blobFetched(ok)

Compressed == \E ok \in BOOLEAN : compressed(ok)

ApiResponded == \E ok \in BOOLEAN : apiResponded(ok)

ApiRejected == \E timedOut \in BOOLEAN : apiRejected(timedOut)

NextTranscribe ==
    \/ LoadCanPlay
    \/ transcribeLyrics
    \/ BlobFetched
    \/ Compressed
    \/ progressTick
    \/ ApiResponded
    \/ ApiRejected
    \/ textRead
    \/ resetProgress

SpecTranscribe == Init /\ [][NextTranscribe]_vars

\* SpecExport follows a session up to its export: the signal holds a chord
\* for three frames, and the tracks are loaded one after the other
ExportFrame ==
    /\ call.fn = "none"
    /\ frames < MaxExportFrames
    /\ \E det \in PairDetectResults :
          /\ frames % 3 # 0 => det.chord = chordHistory[Len(chordHistory)].chord
          /\ updateData(det, QuietSpectrum, ExportFrameStep)

ExportTick ==
    /\ call.fn = "none"
    /\ \E adv \in {0, TickStep} :
          /\ elementTime + adv <= duration
          /\ timeupdate(adv)

ExportToggle == call.fn = "none" /\ TogglePlayback

ExportLoad ==
    /\ call.fn = "none"
    /\ \E file \in ExportFiles :
          /\ file = "a.mp3" <=> currentFileName = NoFile
          /\ currentFileName # "b.mp3"
          /\ handleCanPlay(file)

Export == call.fn = "none" /\ exportTimbreData

NextExport == ExportFrame \/ ExportTick \/ ExportToggle \/ ExportLoad \/ Export

SpecExport == Init /\ [][NextExport]_vars

InitPick ==
    /\ InitStore
    /\ \E frequencyData \in PickBuffers : \E sampleRate \in SampleRates :
          call = [NoCall EXCEPT !.args = [frequencyData |-> frequencyData,
                                          sampleRate |-> sampleRate]]

NextPick == callDetectChordOnBuffer

SpecPick == InitPick /\ [][NextPick]_vars

\* the values of one bin: of up to four enabled stems, and of the main
\* signal
InitStems ==
    /\ InitStore
    /\ \E stemData \in ArraysUpTo(StemLevels, Cardinality(StemTypes)) :
          \E main \in StemLevels :
             /\ ~IsHalfway(stemData, main)
             /\ call = [NoCall EXCEPT !.args = [stemData |-> stemData,
                                                main |-> main]]

NextStems == mergeStems

SpecStems == InitStems /\ [][NextStems]_vars

InitDegree ==
    /\ InitStore
    /\ \E chord \in ChordLabels : \E key \in KeyNames :
          call = [NoCall EXCEPT !.args = [chord |-> chord, key |-> key]]

NextDegree == callGetChordDegree

SpecDegree == InitDegree /\ [][NextDegree]_vars

InitDetectKey ==
    /\ InitStore
    /\ \E history \in KeyHistories : call = [NoCall EXCEPT !.args = history]

NextDetectKey == callDetectKey

SpecDetectKey == InitDetectKey /\ [][NextDetectKey]_vars

TempoFrame ==
    /\ frames < MaxTempoFrames
    /\ \E frequencyData \in TempoBuffers :
          updateData(SilentDetect, SpectrumOf(frequencyData), TempoFrameStep)

NextTempo == TempoFrame

SpecTempo == Init /\ [][NextTempo]_vars

InitRhythm ==
    /\ InitStore
    /\ \E frequencyData \in RhythmBuffers :
          call = [NoCall EXCEPT !.args = frequencyData]

NextRhythm == callCalculateRhythmMetrics

SpecRhythm == InitRhythm /\ [][NextRhythm]_vars

CapFrame ==
    /\ frames < MaxCapFrames
    /\ updateData(SilentDetect, QuietSpectrum, CapFrameStep)

CapTick ==
    /\ elementTime + TickStep
          <= FullHistory[Len(FullHistory)].time + MaxCapTicks * TickStep
    /\ timeupdate(TickStep)

NextCap == CapFrame \/ CapTick

SpecCap == InitCap /\ [][NextCap]_vars

-----------------------------------------------------------------------------
(* Vocabulary of the properties, stated on the state alone *)

AfterFrame == lastOp = "updateData"

AfterLoad == lastOp \in {"handleCanPlay", "handleError"}

\* entry i of the chord history is younger than 800 ms
InWindow(i) == now - chordHistory[i].timestamp < 800

WindowIndexes == {i \in DOMAIN chordHistory : InWindow(i)}

WindowLabels == {chordHistory[i].chord : i \in WindowIndexes}

WindowCount(L) == Cardinality({i \in WindowIndexes : chordHistory[i].chord = L})

WindowFirst(L) ==
    CHOOSE i \in WindowIndexes :
        /\ chordHistory[i].chord = L
        /\ \A j \in WindowIndexes : chordHistory[j].chord = L => i <= j

\* L has more than 2 observations in the window and no other label has more,
\* or as many with an earlier first observation
Leads(L) ==
    /\ WindowCount(L) > 2
    /\ \A M \in WindowLabels \ {L} :
          \/ WindowCount(M) < WindowCount(L)
          \/ WindowCount(M) = WindowCount(L) /\ WindowFirst(L) < WindowFirst(M)

\* no detected label wins the quorum of the window
NoWinner == \A L \in WindowLabels \ {"---"} : ~Leads(L)

StableFields(st) == <<st.currentChord, st.currentNote, st.songKey, st.chordDegree>>

LastChord == chordHistory[Len(chordHistory)].chord

\* count of the transition x -> y in table t (0 when absent)
CountOf(t, x, y) ==
    IF x \in DOMAIN t /\ y \in DOMAIN t[x] THEN t[x][y] ELSE 0

TableLabels(t) == DOMAIN t \cup UNION {DOMAIN t[k] : k \in DOMAIN t}

\* t2 is t1 with the count x -> y one higher and nothing else changed
IncrementedAt(t1, t2, x, y) ==
    \A a \in TableLabels(t1) \cup TableLabels(t2) \cup {x} :
        \A b \in TableLabels(t1) \cup TableLabels(t2) \cup {y} :
            CountOf(t2, a, b) =
                CountOf(t1, a, b) + (IF a = x /\ b = y THEN 1 ELSE 0)

TotalOf(t) == SumSet(DOMAIN t, [k \in DOMAIN t |-> SumSet(DOMAIN t[k], t[k])])

MaxSumOf(t) == SumSet(DOMAIN t, [k \in DOMAIN t |-> MaxSet(DOMAIN t[k], t[k])])

RootCount(n) == Cardinality({i \in DOMAIN chordHistory : chordHistory[i].note = n})

-----------------------------------------------------------------------------
(* C1 *)

\* C1 as claimed: after a frame, every detected label with 3 or more
\* observations younger than 800 ms is the stable chord, and a label with
\* only 2 such observations has not become the stable chord on that frame.
C1_AsClaimed ==
    AfterFrame =>
        \A L \in WindowLabels \ {"---"} :
            /\ WindowCount(L) >= 3 => currentChord = L
            /\ WindowCount(L) = 2 /\ currentChord = L => prev.currentChord = L

\* C1 as amended: after a frame, a detected label with 3 or more observations
\* younger than 800 ms is the stable chord provided no other label ("---"
\* included) has more observations in the window, or as many with an earlier
\* first observation; a label with only 2 such observations has not become
\* the stable chord on that frame.
C1_Stabilization ==
    AfterFrame =>
        \A L \in WindowLabels \ {"---"} :
            /\ Leads(L) => currentChord = L
            /\ WindowCount(L) = 2 /\ currentChord = L => prev.currentChord = L

\* a frame flips the stable chord to a label that beat a competing label
C1_Witness ==
    /\ AfterFrame
    /\ currentChord # "---"
    /\ prev.currentChord # currentChord
    /\ Leads(currentChord)
    /\ \E M \in WindowLabels \ {currentChord} : WindowCount(M) >= 2

-----------------------------------------------------------------------------
(* C2 *)

\* C2: on every frame that changes currentChord to a label L, L occurs more
\* than 2 times among the chord-history entries younger than 800 ms and no
\* other label of that window occurs strictly more often.
C2_QuorumSafety ==
    AfterFrame /\ currentChord # prev.currentChord =>
        /\ WindowCount(currentChord) > 2
        /\ \A M \in WindowLabels : WindowCount(M) <= WindowCount(currentChord)

\* the stable chord changes from one detected chord to another that ties
\* with a competitor in the window
C2_Witness ==
    /\ AfterFrame
    /\ prev.currentChord # "---"
    /\ currentChord # prev.currentChord
    /\ \E M \in WindowLabels \ {currentChord} :
          WindowCount(M) = WindowCount(currentChord)

-----------------------------------------------------------------------------
(* C3 *)

\* C3: once currentChord is a detected chord no operation returns it to
\* "---", a frame on which no detected label wins the quorum leaves it
\* unchanged, and a quorum winner overwrites the initial "---".
C3_Persistence ==
    /\ prev.currentChord # "---" => currentChord # "---"
    /\ AfterFrame /\ prev.currentChord # "---" /\ NoWinner =>
          currentChord = prev.currentChord
    /\ AfterFrame /\ prev.currentChord = "---" =>
          \A L \in WindowLabels \ {"---"} : Leads(L) => currentChord = L

\* a silent frame without a quorum winner arrives when the stable chord is
\* set and has itself dropped to at most 2 observations in the window
C3_Witness ==
    /\ AfterFrame
    /\ prev.currentChord # "---"
    /\ LastChord = "---"
    /\ NoWinner
    /\ WindowCount(prev.currentChord) <= 2

-----------------------------------------------------------------------------
(* C4 *)

\* C4 as claimed: a frame on which no label has more than 2 observations in
\* the 800 ms window leaves currentChord, currentNote, songKey and
\* chordDegree unchanged.
C4_AsClaimed ==
    AfterFrame /\ (\A L \in WindowLabels : WindowCount(L) <= 2) =>
        StableFields(Store) = StableFields(prev)

\* C4 as amended: a frame on which no detected label wins the quorum leaves
\* currentChord, currentNote and chordDegree unchanged; it leaves songKey
\* unchanged when currentChord is a detected chord, and when currentChord is
\* "---" it sets songKey to the key of the chord history: "---" below 10
\* entries or without a detected root, else a most frequent detected root.
C4_FrameEffect ==
    AfterFrame /\ NoWinner =>
        /\ currentChord = prev.currentChord
        /\ currentNote = prev.currentNote
        /\ chordDegree = prev.chordDegree
        /\ prev.currentChord # "---" => songKey = prev.songKey
        /\ prev.currentChord = "---" =>
              IF Len(chordHistory) < 10
                 \/ \A i \in DOMAIN chordHistory : chordHistory[i].note = "---"
              THEN songKey = "---"
              ELSE /\ songKey # "---"
                   /\ \A i \in DOMAIN chordHistory :
                         \/ chordHistory[i].note = "---"
                         \/ RootCount(chordHistory[i].note) <= RootCount(songKey)

\* a frame without a quorum winner arrives when the stable chord and the key
\* are both set
C4_Witness ==
    /\ AfterFrame
    /\ NoWinner
    /\ prev.currentChord # "---"
    /\ prev.songKey # "---"
    /\ LastChord # currentChord

-----------------------------------------------------------------------------
(* C5 *)

\* C5: a frame that leaves the stable chord unchanged leaves the transition
\* table and predictability unchanged, and a frame that changes the stable
\* chord from a detected X to a different detected Y raises the count X -> Y
\* by one.
C5_AsClaimed ==
    AfterFrame =>
        /\ currentChord = prev.currentChord =>
              /\ chordTransitions = prev.chordTransitions
              /\ predictability = prev.predictability
        /\ prev.currentChord # "---" /\ currentChord # prev.currentChord =>
              IncrementedAt(prev.chordTransitions, chordTransitions,
                            prev.currentChord, currentChord)

-----------------------------------------------------------------------------
(* C6 *)

\* C6: the transition table never holds "---" as a source or a target nor an
\* entry whose source is its target, and a frame whose observation repeats
\* the previous one, or where either of the two is "---", leaves the table
\* and predictability unchanged.
C6_NoSelfNoUndetected ==
    /\ \A x \in DOMAIN chordTransitions :
          /\ x # "---"
          /\ \A y \in DOMAIN chordTransitions[x] : y # "---" /\ y # x
    /\ AfterFrame /\ Len(chordHistory) > 1
         /\ ( \/ LastChord = "---"
              \/ chordHistory[Len(chordHistory) - 1].chord = "---"
              \/ chordHistory[Len(chordHistory) - 1].chord = LastChord ) =>
          /\ chordTransitions = prev.chordTransitions
          /\ predictability = prev.predictability

\* a detected chord is observed on two frames in a row while the table holds
\* counts
C6_Witness ==
    /\ AfterFrame
    /\ Len(chordHistory) > 1
    /\ LastChord # "---"
    /\ chordHistory[Len(chordHistory) - 1].chord = LastChord
    /\ chordTransitions # EmptyMap

-----------------------------------------------------------------------------
(* C7 *)

\* C7: the stored predictability is the quotient (sum over the sources of the
\* largest outgoing count) / (sum of all counts) of the stored table, 0 for
\* the empty table, and lies in [0,1]; recording A->B, A->B, A->C into the
\* empty table gives 2/3.
C7_Predictability ==
    /\ predictability.den > 0
    /\ 0 <= predictability.num /\ predictability.num <= predictability.den
    /\ chordTransitions = EmptyMap => predictability.num = 0
    /\ predictability.num * TotalOf(chordTransitions)
          = predictability.den * MaxSumOf(chordTransitions)
    /\ Predictability(
          RecordTransition(
             RecordTransition(
                RecordTransition(EmptyMap, "A", "B"), "A", "B"), "A", "C"))
          = [num |-> 2, den |-> 3]

\* the table holds a source with two different targets and the
\* predictability is strictly between 0 and 1
C7_Witness ==
    /\ \E x \in DOMAIN chordTransitions :
          Cardinality(DOMAIN chordTransitions[x]) >= 2
    /\ 0 < predictability.num
    /\ predictability.num < predictability.den

-----------------------------------------------------------------------------
(* C8 *)

\* C8: after a new audio source has been loaded the chord history is empty.
C8_AsClaimed == lastOp = "handleCanPlay" => chordHistory = <<>>

-----------------------------------------------------------------------------
(* C9 *)

\* C9: after a new audio source has been loaded the analysis-history buffer
\* is empty.
C9_AsClaimed == lastOp = "handleCanPlay" => analysisHistory = <<>>

-----------------------------------------------------------------------------
(* C10 *)

\* C10: right after a load, successful or failed, the transition table is
\* empty and predictability is 0; and old counts never reappear: a frame
\* leaves the table as it was or raises exactly one count by one.
C10_TransitionReset ==
    /\ AfterLoad => chordTransitions = EmptyMap /\ predictability = Zero
    /\ AfterFrame =>
          \/ chordTransitions = prev.chordTransitions
          \/ \E x \in TableLabels(chordTransitions) :
                \E y \in TableLabels(chordTransitions) :
                   IncrementedAt(prev.chordTransitions, chordTransitions, x, y)

\* a failed load arrives when the table holds counts
C10_Witness ==
    /\ lastOp = "handleError"
    /\ prev.chordTransitions # EmptyMap
    /\ prev.predictability # Zero

-----------------------------------------------------------------------------
(* Vocabulary of the claims on peak events *)

\* the latest handler was a frame analysed while playing
PlayingFrame == lastOp = "updateData" /\ prev.isPlaying

\* the peak frequencies of the latest frame
FramePeaks == observed.spectrum.peaks

\* the midpoint of the frequency range of event p is less than 300 Hz from f
Near(p, f) ==
    LET twice == p.freqRange[1] + p.freqRange[2]
    IN twice - 2 * f < 600 /\ 2 * f - twice < 600

\* the events the frame found in the live set whose midpoint is near f
NearEvents(f) ==
    {i \in DOMAIN prev.dynamicParticles : Near(prev.dynamicParticles[i], f)}

\* the event with identifier id is live, active and was last active now
LiveRefreshed(id) ==
    \E j \in DOMAIN dynamicParticles :
        /\ dynamicParticles[j].id = id
        /\ dynamicParticles[j].lastActive = now
        /\ dynamicParticles[j].isActive

\* an event was created for peak f by the latest frame and is live
LiveSpawned(f) ==
    \E j \in DOMAIN dynamicParticles :
        /\ dynamicParticles[j].id = <<f, now>>
        /\ dynamicParticles[j].createdAt = now
        /\ dynamicParticles[j].lastActive = now
        /\ dynamicParticles[j].isActive

LiveIds == {dynamicParticles[j].id : j \in DOMAIN dynamicParticles}

-----------------------------------------------------------------------------
(* C11 *)

\* C11: right after a new audio source has been loaded the live peak-event
\* set is empty and rhythmMetrics is tempo 120, beatStrength 0, syncopation 0.
C11_PeakRhythmReset ==
    lastOp = "handleCanPlay" =>
        /\ dynamicParticles = <<>>
        /\ rhythmMetrics.tempo = 120
        /\ rhythmMetrics.beatStrength.num = 0
        /\ rhythmMetrics.syncopation.num = 0

\* a source is loaded when peak events are live and the rhythm metrics are
\* not the default
C11_Witness ==
    /\ lastOp = "handleCanPlay"
    /\ prev.dynamicParticles # <<>>
    /\ prev.rhythmMetrics.tempo # 120
    /\ prev.rhythmMetrics.beatStrength.num # 0

-----------------------------------------------------------------------------
(* C12 *)

\* C12 as claimed: in a playing frame, for every peak and every event found
\* in the live set whose midpoint is within 300 Hz of the peak, that event is
\* live, active and last active now after the frame, and no event was
\* created for the peak.
C12_AsClaimed ==
    PlayingFrame =>
        \A k \in DOMAIN FramePeaks :
            \A i \in NearEvents(FramePeaks[k]) :
                /\ LiveRefreshed(prev.dynamicParticles[i].id)
                /\ <<FramePeaks[k], now>> \notin LiveIds

\* C12 as amended: in a playing frame, for every peak with an event in the
\* live set whose midpoint is less than 300 Hz from the peak, the first such
\* event in list order is live, active and last active now after the frame,
\* and no event was created for the peak.
C12_PeakMerge ==
    PlayingFrame =>
        \A k \in DOMAIN FramePeaks :
            LET near == NearEvents(FramePeaks[k])
            IN near # {} =>
                 /\ \E i \in near :
                       /\ \A m \in near : i <= m
                       /\ LiveRefreshed(prev.dynamicParticles[i].id)
                 /\ <<FramePeaks[k], now>> \notin LiveIds

\* a peak reappears near an event that had been silent for more than 300 ms
C12_Witness ==
    /\ PlayingFrame
    /\ \E k \in DOMAIN FramePeaks :
          \E i \in NearEvents(FramePeaks[k]) :
              /\ now - prev.dynamicParticles[i].lastActive > 300
              /\ LiveRefreshed(prev.dynamicParticles[i].id)
    /\ Len(dynamicParticles) = Len(prev.dynamicParticles)

-----------------------------------------------------------------------------
(* C13 *)

\* C13: after a playing frame, for every peak of the frame without an event
\* in the live set within 300 Hz, an event created now for that peak is
\* live, active and last active now.
C13_AsClaimed ==
    PlayingFrame =>
        \A k \in DOMAIN FramePeaks :
            NearEvents(FramePeaks[k]) = {} => LiveSpawned(FramePeaks[k])

-----------------------------------------------------------------------------
(* C14 *)

\* C14: after a playing frame, every live event last active more than 300 ms
\* before the frame time is inactive.
C14_AsClaimed ==
    PlayingFrame =>
        \A j \in DOMAIN dynamicParticles :
            now - dynamicParticles[j].lastActive > 300 =>
                ~dynamicParticles[j].isActive

-----------------------------------------------------------------------------
(* C15 *)

\* C15: after a playing frame no live event was last active more than 20000
\* ms before the frame time, and every event the frame found in the live set
\* that was last active at most 20000 ms before the frame time is still live.
C15_AsClaimed ==
    PlayingFrame =>
        /\ \A j \in DOMAIN dynamicParticles :
              now - dynamicParticles[j].lastActive <= 20000
        /\ \A i \in DOMAIN prev.dynamicParticles :
              now - prev.dynamicParticles[i].lastActive <= 20000 =>
                  prev.dynamicParticles[i].id \in LiveIds

-----------------------------------------------------------------------------
(* Vocabulary of the claims on the history buffer *)

\* the buffer the latest handler found
OldHistory == prev.analysisHistory

\* the buffer was empty, or the playback position is at least 0.5 s after
\* the time of its last sample
GateOpen ==
    \/ OldHistory = <<>>
    \/ currentTime - OldHistory[Len(OldHistory)].time >= 500

\* the buffer is the old one with one sample of the current playback
\* position appended, the oldest sample being evicted beyond 1000 entries
SampleAppended ==
    /\ analysisHistory # <<>>
    /\ analysisHistory[Len(analysisHistory)].time = currentTime
    /\ LET rest == SubSeq(analysisHistory, 1, Len(analysisHistory) - 1)
       IN IF Len(OldHistory) < 1000 THEN rest = OldHistory
          ELSE rest = Tail(OldHistory)

-----------------------------------------------------------------------------
(* C16 *)

\* C16: a frame appends a sample exactly when the buffer was empty or the
\* playback position is at least 0.5 s after the time of the last sample;
\* any other frame leaves the buffer unchanged.
C16_HistoryGate ==
    AfterFrame =>
        IF GateOpen THEN SampleAppended ELSE analysisHistory = OldHistory

\* both cases on a buffer that is not empty: a frame 250 ms of playback
\* after the last sample, and an earlier state where a frame appended the
\* second sample exactly 500 ms after the first
C16_Witness ==
    /\ AfterFrame
    /\ Len(OldHistory) = 2
    /\ OldHistory[2].time - OldHistory[1].time = 500
    /\ currentTime - OldHistory[2].time = 250
    /\ analysisHistory = OldHistory

-----------------------------------------------------------------------------
(* C18 *)

\* C18: after every frame analysed while playing, less than 0.5 s of
\* playback has elapsed since the last recorded sample (a frame that finds
\* 0.5 s or more elapsed appends a sample), whatever seeks, replays and
\* loads came before.
C18_AsClaimed == AfterFrame /\ isPlaying => played < 500

-----------------------------------------------------------------------------
(* C17 *)

\* C17: the buffer never holds more than 1000 samples, and a frame that
\* appends to a buffer of 1000 samples removes exactly the oldest one: the
\* new buffer is samples 2..1000 of the old one, in order, followed by the
\* new sample.
C17_HistoryCap ==
    /\ Len(analysisHistory) <= 1000
    /\ AfterFrame /\ Len(OldHistory) = 1000 /\ GateOpen =>
          /\ Len(analysisHistory) = 1000
          /\ \A i \in 1..999 : analysisHistory[i] = OldHistory[i + 1]
          /\ analysisHistory[1000].time = currentTime

\* a frame appends to a buffer of 1000 samples
C17_Witness ==
    /\ AfterFrame
    /\ Len(OldHistory) = 1000
    /\ analysisHistory # OldHistory
    /\ analysisHistory[1].time = OldHistory[2].time

-----------------------------------------------------------------------------
(* C20 *)

\* C20: after every frame, every chord-history entry is less than 2000 ms
\* older than the frame time, the timestamps are in non-decreasing order,
\* and the newest entry is the observation of the frame.
C20_HistoryWindow ==
    AfterFrame =>
        /\ \A i \in DOMAIN chordHistory : now - chordHistory[i].timestamp < 2000
        /\ \A i \in DOMAIN chordHistory : \A j \in DOMAIN chordHistory :
              i <= j => chordHistory[i].timestamp <= chordHistory[j].timestamp
        /\ chordHistory # <<>>
        /\ chordHistory[Len(chordHistory)] =
              [chord |-> observed.det.chord, note |-> observed.det.rootNote,
               timestamp |-> now]

\* a frame drops the entry that has become 2000 ms old from a full window
C20_Witness ==
    /\ AfterFrame
    /\ Len(prev.chordHistory) = 10
    /\ now - prev.chordHistory[1].timestamp >= 2000
    /\ Len(chordHistory) = 10
    /\ chordHistory[1] = prev.chordHistory[2]

-----------------------------------------------------------------------------
(* C19 *)

\* C19: what a component was handed when it read the store is never changed
\* by a later frame: the transition table with its inner tables, the peak
\* events and the history buffer it holds are as they were given.
C19_AsClaimed ==
    /\ consumer.held.chordTransitions = consumer.given.chordTransitions
    /\ consumer.held.dynamicParticles = consumer.given.dynamicParticles
    /\ consumer.held.analysisHistory = consumer.given.analysisHistory

-----------------------------------------------------------------------------
(* C21 *)

\* C21: a frame analysed while isPlaying is false leaves the peak-event set
\* as it was: no event is spawned, refreshed, marked inactive or removed.
C21_PlayingGate ==
    AfterFrame /\ ~prev.isPlaying => dynamicParticles = prev.dynamicParticles

\* a paused frame with a peak, while the set holds an active event that has
\* been silent for more than 300 ms
C21_Witness ==
    /\ AfterFrame
    /\ ~prev.isPlaying
    /\ FramePeaks # <<>>
    /\ \E i \in DOMAIN prev.dynamicParticles :
          /\ prev.dynamicParticles[i].isActive
          /\ now - prev.dynamicParticles[i].lastActive > INACTIVE_MS

-----------------------------------------------------------------------------
(* Vocabulary of the claims on feature extraction *)

\* the features of the buffers of call.args have been extracted
Extracted == call.fn = "extractFeatures"

AllZero(buffer) == \A i \in DOMAIN buffer : buffer[i] = 0

\* successive samples are alternately above and below 128
Alternating(timeData) ==
    /\ \A i \in DOMAIN timeData : timeData[i] # 128
    /\ \A i \in DOMAIN timeData \ {1} :
          (timeData[i] > 128) # (timeData[i - 1] > 128)

Nyquist == [num |-> call.args.sampleRate \div 2, den |-> 1]

One == [num |-> 1, den |-> 1]

-----------------------------------------------------------------------------
(* C22 *)

\* C22: for every non-empty frequency buffer of zeros, the spectral rolloff
\* is sampleRate / 2, the centroid is 0 and the roughness is 0.
C22_AsClaimed ==
    /\ Extracted
    /\ call.args.frequencyData # <<>>
    /\ AllZero(call.args.frequencyData)
    => /\ call.result.spectralRolloff = Nyquist
       /\ call.result.spectralCentroid = Zero
       /\ call.result.roughness = Zero

-----------------------------------------------------------------------------
(* C23 *)

\* C23: the zero-crossing rate of a waveform buffer of at least two samples
\* that alternate above and below 128 on every sample is 1.
C23_AsClaimed ==
    /\ Extracted
    /\ Len(call.args.timeData) >= 2
    /\ Alternating(call.args.timeData)
    => call.result.zeroCrossingRate = One

-----------------------------------------------------------------------------
(* C24 *)

\* C24: for empty frequency and waveform buffers the extraction yields
\* centroid 0, rolloff sampleRate / 2, roughness 0 and zero-crossing rate 0,
\* none of them the result of a division by zero.
C24_AsClaimed ==
    /\ Extracted
    /\ call.args.frequencyData = <<>>
    /\ call.args.timeData = <<>>
    => /\ call.result.spectralCentroid = Zero
       /\ call.result.spectralRolloff = Nyquist
       /\ call.result.roughness = Zero
       /\ call.result.zeroCrossingRate = Zero

-----------------------------------------------------------------------------
(* C30 *)

\* C30: frequencyToNote returns "---" for every frequency below 20 Hz and
\* one of the 12 pitch-class names for every frequency of 20 Hz or more,
\* never an undefined value.
C30_AsClaimed ==
    call.fn = "frequencyToNote" =>
        IF call.args < NOTE_MIN_HZ * FFT_SIZE
        THEN call.result = Undetected
        ELSE call.result \in NoteSet

-----------------------------------------------------------------------------
(* Vocabulary of the claims on chord classification *)

Classified == call.fn = "detectChord"

\* the pitch classes of a set of peaks
PitchClasses(P) == {frequencyToNote(p.freq) : p \in P}

AllPeaks == {call.args[i] : i \in DOMAIN call.args}

\* the peaks with fewer than five stronger or equally strong peaks before
\* them in the order of strength
FiveStrongest ==
    {p \in AllPeaks : Cardinality({q \in AllPeaks : q.magnitude > p.magnitude}) < 5}

\* the peak stronger than every other
IsStrongest(p) == \A q \in AllPeaks \ {p} : q.magnitude < p.magnitude

\* the pitch class k semitones above root
Above(root, k) == NOTE_NAMES[((indexOf(NOTE_NAMES, root) + k) % 12) + 1]

\* the peaks of P are the triad on root with the given third, and the
\* strongest peak of the frame has the pitch class root
IsTriad(P, root, third) ==
    /\ PitchClasses(P) = {root, Above(root, third), Above(root, 7)}
    /\ \E p \in AllPeaks : IsStrongest(p) /\ frequencyToNote(p.freq) = root

-----------------------------------------------------------------------------
(* C25 *)

\* C25 as claimed: when the peaks of the frame have exactly the pitch classes
\* root, root + 4 and root + 7, the root peak being the strongest, the label
\* is the root name and rootNote the root; with root + 3 for root + 4 the
\* label is the root name followed by "m".
C25_AsClaimed ==
    Classified =>
        \A root \in NoteSet :
            /\ IsTriad(AllPeaks, root, 4) =>
                  call.result = [chord |-> root, rootNote |-> root]
            /\ IsTriad(AllPeaks, root, 3) =>
                  call.result = [chord |-> root \o "m", rootNote |-> root]

\* C25: when the five strongest peaks of the frame have exactly the pitch
\* classes root, root + 4 and root + 7, the root peak being the strongest,
\* the label is the root name and rootNote the root; with root + 3 for
\* root + 4 the label is the root name followed by "m".
C25_Triad ==
    Classified =>
        \A root \in NoteSet :
            /\ IsTriad(FiveStrongest, root, 4) =>
                  call.result = [chord |-> root, rootNote |-> root]
            /\ IsTriad(FiveStrongest, root, 3) =>
                  call.result = [chord |-> root \o "m", rootNote |-> root]

\* a frame of more than five peaks with four pitch classes, whose five
\* strongest are a minor triad, has been classified
C25_Witness ==
    /\ Classified
    /\ Cardinality(AllPeaks) > 5
    /\ Cardinality(PitchClasses(AllPeaks)) = 4
    /\ \E root \in NoteSet : IsTriad(FiveStrongest, root, 3)

-----------------------------------------------------------------------------
(* C26 *)

\* the number of entries of the history call.args with root n
RootsOf(n) == {i \in DOMAIN call.args : call.args[i].note = n}

\* the detected roots of the history call.args
DetectedRoots == {call.args[i].note : i \in DOMAIN call.args} \ {Undetected}

\* root n occurs more often than m, or as often and first before m
Precedes(n, m) ==
    \/ Cardinality(RootsOf(n)) > Cardinality(RootsOf(m))
    \/ /\ Cardinality(RootsOf(n)) = Cardinality(RootsOf(m))
       /\ \E i \in RootsOf(n) : \A j \in RootsOf(m) : i < j

\* C26: detectKey returns "---" for a history of fewer than 10 entries; for
\* 10 entries or more it returns the detected root with the highest count,
\* the one seen first among equals, and "---" if no entry has a detected
\* root.
C26_DetectKey ==
    call.fn = "detectKey" =>
        IF Len(call.args) < 10 \/ DetectedRoots = {}
        THEN call.result = Undetected
        ELSE /\ call.result \in DetectedRoots
             /\ \A m \in DetectedRoots \ {call.result} :
                   Precedes(call.result, m)

\* detectKey has been called on 10 entries with two roots of equal count
C26_Witness ==
    /\ call.fn = "detectKey"
    /\ Len(call.args) >= 10
    /\ Cardinality(DetectedRoots) = 2
    /\ \A n, m \in DetectedRoots :
          Cardinality(RootsOf(n)) = Cardinality(RootsOf(m))
    /\ call.args[1].note = Undetected

-----------------------------------------------------------------------------
(* C27 *)

\* ten times the mean of bins 0..9 of the latest frame
FrameLowSum == observed.spectrum.lowSum

\* C27 as claimed: after a frame, tempo is 60 + 0.5 * (mean of bins 0..9) of
\* that frame.
C27_AsClaimed == AfterFrame => 20 * rhythmMetrics.tempo = 1200 + FrameLowSum

\* C27: after a frame, tempo is 60 + 0.5 * (mean of bins 0..9) of that
\* frame rounded to the nearest integer, a half rounded up, whatever the
\* frames before it were.
C27_Tempo ==
    AfterFrame =>
        /\ 20 * rhythmMetrics.tempo - 10 <= 1200 + FrameLowSum
        /\ 1200 + FrameLowSum < 20 * rhythmMetrics.tempo + 10

\* a second or later frame whose value 60 + 0.5 * mean ends in .5, after a
\* frame with another tempo
C27_Witness ==
    /\ AfterFrame
    /\ frames >= 2
    /\ FrameLowSum % 20 = 10
    /\ prev.rhythmMetrics.tempo # rhythmMetrics.tempo

-----------------------------------------------------------------------------
(* C28 *)

\* q is a number of the interval [0, 1]
InUnitInterval(q) == q.den > 0 /\ q.num >= 0 /\ q.num <= q.den

\* C28: for every frame of 8-bit magnitudes, beatStrength and syncopation
\* are defined numbers of [0, 1], also for a frame of fewer than 50 bins.
C28_AsClaimed ==
    call.fn = "calculateRhythmMetrics" =>
        /\ InUnitInterval(call.result.beatStrength)
        /\ InUnitInterval(call.result.syncopation)

-----------------------------------------------------------------------------
(* C29 *)

\* the observation before the latest one in the chord history
PreviousChord == chordHistory[Len(chordHistory) - 1].chord

\* the latest frame observed a detected chord after another detected chord
TransitionObserved ==
    /\ AfterFrame
    /\ Len(chordHistory) > 1
    /\ PreviousChord # "---"
    /\ LastChord # "---"
    /\ PreviousChord # LastChord

\* C29: a frame that records a transition X -> Y, X and Y detected and
\* different, raises the count of X -> Y by one and changes no other entry;
\* no handler but a track load lowers a count or removes an entry.
C29_IncrementOnly ==
    /\ TransitionObserved =>
          IncrementedAt(prev.chordTransitions, chordTransitions,
                        PreviousChord, LastChord)
    /\ ~AfterLoad =>
          \A x \in DOMAIN prev.chordTransitions :
              /\ x \in DOMAIN chordTransitions
              /\ \A y \in DOMAIN prev.chordTransitions[x] :
                    /\ y \in DOMAIN chordTransitions[x]
                    /\ chordTransitions[x][y] >= prev.chordTransitions[x][y]

\* a transition already counted is recorded again while its source has
\* another target in the table
C29_Witness ==
    /\ TransitionObserved
    /\ CountOf(prev.chordTransitions, PreviousChord, LastChord) >= 1
    /\ \E y \in DOMAIN prev.chordTransitions[PreviousChord] : y # LastChord

-----------------------------------------------------------------------------
(* C31 *)

\* the frequency is 440 Hz
IsA440 == call.args = 440 * FFT_SIZE

\* C31: frequencyToNote is tuned to A440: 440 Hz, with note number 49, maps
\* to "A", and a frequency of 440 Hz or more whose rounded note number is
\* 49 + n maps to the pitch class n semitones above A.
C31_AsClaimed ==
    /\ call.fn = "frequencyToNote"
    /\ call.args >= 440 * FFT_SIZE
    => /\ IsA440 => call.result = "A"
       /\ call.result = Above("A", RoundedNoteNum(call.args) - 49)

-----------------------------------------------------------------------------
(* C37 *)

\* C37: after any sequence of frames, seeks, replays and track loads the
\* sample times of analysisHistory are strictly increasing, and any two
\* consecutive samples are at least 0.5 s apart.
C37_HistoryOrdered ==
    \A i \in 1..(Len(analysisHistory) - 1) :
        /\ analysisHistory[i].time < analysisHistory[i + 1].time
        /\ analysisHistory[i + 1].time - analysisHistory[i].time
               >= HISTORY_INTERVAL_MS

\* a seek or a replay has moved the position back behind the last of
\* several samples
C37_Witness ==
    /\ Len(analysisHistory) >= 2
    /\ lastOp \in {"seekTo", "replay"}
    /\ currentTime < analysisHistory[Len(analysisHistory)].time

-----------------------------------------------------------------------------
(* C38 *)

\* the chord and root note pairs the frames of SpecKey record, and the
\* pair of the initial state
RecordedPairs ==
    {<<d.chord, d.rootNote>> : d \in PairDetectResults}
    \cup {<<Undetected, Undetected>>}

\* C38: in every reachable state, directly after a track load or a failed
\* load included, chordDegree equals getChordDegree(currentChord, songKey)
\* and currentNote is the root note recorded with currentChord.
C38_StableConsistent ==
    /\ chordDegree = getChordDegree(currentChord, songKey)
    /\ <<currentChord, currentNote>> \in RecordedPairs

\* a load has reset key and degree while a chord with a degree in the key
\* was displayed
C38_Witness ==
    /\ AfterLoad
    /\ currentChord # Undetected
    /\ prev.songKey # Undetected
    /\ prev.chordDegree # Undetected
    /\ songKey = Undetected

-----------------------------------------------------------------------------
(* C32 *)

\* the semitones from key up to root, modulo 12
SemitonesAbove(key, root) ==
    (indexOf(NOTE_NAMES, root) - indexOf(NOTE_NAMES, key) + 12) % 12

\* C32: getChordDegree(chord, key) is "---" when chord or key is "---";
\* otherwise, for the chord of root n with suffix s, it is the entry of the
\* table I, bII, II, bIII, III, IV, bV, V, bVI, VI, bVII, VII at the
\* semitone distance from the key to n modulo 12, in lower case exactly
\* when the suffix has the minor marker and the distance is not 0.
C32_ScaleDegree ==
    call.fn = "getChordDegree" =>
        IF call.args.chord = Undetected \/ call.args.key = Undetected
        THEN call.result = Undetected
        ELSE \A n \in NoteSet : \A s \in ChordSuffixes :
                call.args.chord = n \o s =>
                    LET d == SemitonesAbove(call.args.key, n)
                    IN call.result =
                          IF s \in MinorSuffixes /\ d # 0
                          THEN romanNumeralsLower[d + 1]
                          ELSE romanNumerals[d + 1]

\* the degree of A minor in the key of C
C32_Witness ==
    /\ call.fn = "getChordDegree"
    /\ call.args = [chord |-> "A" \o "m", key |-> "C"]
    /\ call.result = "vi"

-----------------------------------------------------------------------------
(* C33 *)

Picked == call.fn = "detectChord(buffer)"

\* the magnitude of bin i of the buffer of the call
Magnitude(i) == ByteAt(call.args.frequencyData, i)

\* the bins from 5 up in the lower quarter of the buffer that hold a local
\* maximum above 100
LocalMaxima ==
    {i \in 5..(frequencyBinCount - 1) :
        /\ 4 * i < frequencyBinCount
        /\ Magnitude(i) > 100
        /\ Magnitude(i) > Magnitude(i - 1)
        /\ Magnitude(i) > Magnitude(i + 1)}

\* bin i comes before bin j in the list sorted by magnitude: it is
\* stronger, or as strong and found first
SortedBefore(i, j) ==
    \/ Magnitude(i) > Magnitude(j)
    \/ Magnitude(i) = Magnitude(j) /\ i < j

\* the local maxima with fewer than five others before them
StrongestFive ==
    {i \in LocalMaxima :
        Cardinality({j \in LocalMaxima : SortedBefore(j, i)}) < 5}

\* the pitch class of bin i
NoteOfBin(i) == frequencyToNote(i * call.args.sampleRate)

-----------------------------------------------------------------------------
(* C35 *)

Merged == call.fn = "mergeStems" /\ call.args.stemData # <<>>

\* the sum of the values of a sequence
RECURSIVE SumOf(_)
SumOf(values) == IF values = <<>> THEN 0 ELSE Head(values) + SumOf(Tail(values))

\* round(0.7 * (arithmetic mean of stemData) + 0.3 * main)
RoundedBlend(stemData, main) ==
    LET num == 7 * SumOf(stemData) + 3 * main * Len(stemData)
        den == 10 * Len(stemData)
    IN (2 * num + den) \div (2 * den)

\* C35: with one to four stems enabled a bin of the analysed spectrum is
\* round(0.7 * (arithmetic mean of the magnitudes of the enabled stems)
\* + 0.3 * (magnitude of the main signal)), and lies within 0..255.
C35_AsClaimed ==
    Merged =>
        /\ call.result = RoundedBlend(call.args.stemData, call.args.main)
        /\ call.result \in 0..255

\* the statement for stems whose magnitudes add up to at most 255
C35_NoOverflow ==
    Merged /\ SumOf(call.args.stemData) <= 255 => C35_AsClaimed

-----------------------------------------------------------------------------
(* C36 *)

\* twice the midpoint of the frequency range of live event i
TwiceMidpoint(i) ==
    dynamicParticles[i].freqRange[1] + dynamicParticles[i].freqRange[2]

\* the midpoints of the live events i and j are at least 300 Hz apart
Separated(i, j) == Abs(TwiceMidpoint(i) - TwiceMidpoint(j)) >= 600

\* C36: in every reachable state no two events of the live peak-event set
\* have frequency-range midpoints less than 300 Hz apart.
C36_AsClaimed ==
    \A i, j \in DOMAIN dynamicParticles : i # j => Separated(i, j)

\* the statement for the events whose range was not cut at 20000 Hz
C36_BelowCut ==
    \A i, j \in DOMAIN dynamicParticles :
        /\ i # j
        /\ dynamicParticles[i].id[1] + FREQ_HALF_WIDTH <= FREQ_MAX
        /\ dynamicParticles[j].id[1] + FREQ_HALF_WIDTH <= FREQ_MAX
        => Separated(i, j)

-----------------------------------------------------------------------------
(* C34 *)

Exported == call.fn = "exportTimbreData"

\* the samples of the history that start an entry: the chord is detected
\* and is not the chord of the last such sample before it
RECURSIVE EntryStarts(_, _)
EntryStarts(history, lastChord) ==
    IF history = <<>> THEN <<>>
    ELSE IF Head(history).chord # Undetected /\ Head(history).chord # lastChord
         THEN <<Head(history)>> \o EntryStarts(Tail(history), Head(history).chord)
         ELSE EntryStarts(Tail(history), lastChord)

\* one entry for each history sample whose chord is detected and differs
\* from the chord of the previous entry
C34_Entries ==
    Exported =>
        LET starts == EntryStarts(analysisHistory, "")
        IN /\ Len(call.result) = Len(starts)
           /\ \A k \in DOMAIN starts :
                 /\ call.result[k].time = starts[k].time
                 /\ call.result[k].chord = starts[k].chord
                 /\ call.result[k].chord # Undetected
           /\ \A k \in 1..(Len(starts) - 1) :
                 call.result[k].chord # call.result[k + 1].chord

\* the duration of an entry is the gap to the start of the next, that of
\* the last entry the duration of the clip minus its start
C34_Gaps ==
    Exported =>
        /\ \A k \in 1..(Len(call.result) - 1) :
              call.result[k].duration =
                  call.result[k + 1].time - call.result[k].time
        /\ call.result # <<>> =>
              call.result[Len(call.result)].duration =
                  duration - call.result[Len(call.result)].time

\* C34: exportTimbreData emits one progression entry at each history sample
\* whose chord is detected and differs from the chord of the previous
\* entry; the duration of an entry is the gap to the start of the next,
\* that of the last the clip duration minus its start, and every duration
\* is non-negative.
C34_AsClaimed ==
    /\ C34_Entries
    /\ C34_Gaps
    /\ Exported => \A k \in DOMAIN call.result : call.result[k].duration >= 0

-----------------------------------------------------------------------------
(* C39 *)

\* the latest transcribeLyrics call has ended
CallEnded == transcription.pc \in {"done", "failed"}

\* C39: a transcribeLyrics call that has ended has left isTranscribingLyrics
\* false and its progress timer stopped, and after a failed call (fetch
\* error, timeout abort or server error) no timer tick moves
\* transcriptionProgress away from 0.
C39_AsClaimed ==
    /\ CallEnded =>
          /\ ~transcription.isTranscribingLyrics
          /\ transcription.progressIntervals = 0
    /\ transcription.pc = "failed" => transcription.transcriptionProgress = 0

\* the statement as long as no request to /api/transcribe was rejected
C39_WithoutRejection == ~transcription.rejected => C39_AsClaimed

====
